---- MODULE Spec2Model ----
(***************************************************************************)
(* Verification model of the competitive-intelligence dashboard.           *)
(*                                                                         *)
(* Part 1: the location aggregation of SurveillanceMap (the useMemo body   *)
(* of src/src/components/SurveillanceMap.tsx, lines 98-171), executed one  *)
(* forEach iteration per step.                                             *)
(*                                                                         *)
(* JavaScript values are tagged records, so that null, undefined, numbers, *)
(* strings, arrays and objects can be told apart and compared.  Text is a  *)
(* TLA+ string; toLowerCase, trim, includes, charAt and slice are computed *)
(* character by character.  Coordinates are kept as the pair of decimal    *)
(* literals written in the source.                                         *)
(***************************************************************************)
EXTENDS Integers, Sequences, FiniteSets, Bags, TLC

(***************************************************************************)
(* Bounds of the model.                                                    *)
(***************************************************************************)
\* longest news array handed to the component
MaxItems == 2
\* number of times the memoised aggregation is computed on the same array
MaxRuns == 2

(***************************************************************************)
(* JavaScript values.                                                      *)
(***************************************************************************)
Undefined == [type |-> "undefined"]
Null == [type |-> "null"]
Str(s) == [type |-> "string", v |-> s]
Num(n) == [type |-> "number", v |-> n]
Bool(b) == [type |-> "boolean", v |-> b]
Arr(elems) == [type |-> "array", elems |-> elems]
Obj(props) == [type |-> "object", props |-> props]
\* the object literal {} of line 122
EmptyObj == Obj(<<>>)

\* ToBoolean, as applied by ||, && and if
Truthy(v) ==
  CASE v.type = "undefined" -> FALSE
    [] v.type = "null" -> FALSE
    [] v.type = "string" -> v.v # ""
    [] v.type = "number" -> v.v # 0
    [] v.type = "boolean" -> v.v
    [] OTHER -> TRUE

\* reading a property of null or undefined throws a TypeError
ReadThrows(v) == v.type \in {"undefined", "null"}

\* v[k] for the keys the aggregation reads ("details", "location") on a
\* value that is not null/undefined: an own property of an object, and
\* undefined on numbers, strings and arrays
Get(v, k) ==
  IF v.type = "object" /\ k \in DOMAIN v.props THEN v.props[k] ELSE Undefined

(***************************************************************************)
(* String.prototype functions used by the aggregation.                     *)
(***************************************************************************)
UpperChars == "ABCDEFGHIJKLMNOPQRSTUVWXYZ"
LowerChars == "abcdefghijklmnopqrstuvwxyz"

\* the letters of s as a set of one-character strings
CharsOf(s) == {SubSeq(s, i, i) : i \in 1..Len(s)}

\* upper-case letter to lower-case letter, and back
LowerOf ==
  [c \in CharsOf(UpperChars) |->
     LET i == CHOOSE j \in 1..Len(UpperChars) : SubSeq(UpperChars, j, j) = c
     IN SubSeq(LowerChars, i, i)]

UpperOf ==
  [c \in CharsOf(LowerChars) |->
     LET i == CHOOSE j \in 1..Len(LowerChars) : SubSeq(LowerChars, j, j) = c
     IN SubSeq(UpperChars, i, i)]

LowerChar(c) == IF c \in DOMAIN LowerOf THEN LowerOf[c] ELSE c

UpperChar(c) == IF c \in DOMAIN UpperOf THEN UpperOf[c] ELSE c

RECURSIVE toLowerCase(_)
toLowerCase(s) ==
  IF s = "" THEN "" ELSE LowerChar(Head(s)) \o toLowerCase(Tail(s))

RECURSIVE toUpperCase(_)
toUpperCase(s) ==
  IF s = "" THEN "" ELSE UpperChar(Head(s)) \o toUpperCase(Tail(s))

IsSpace(c) == c = " "

RECURSIVE trimStart(_)
trimStart(s) ==
  IF s # "" /\ IsSpace(Head(s)) THEN trimStart(Tail(s)) ELSE s

RECURSIVE trimEnd(_)
trimEnd(s) ==
  IF s # "" /\ IsSpace(SubSeq(s, Len(s), Len(s)))
  THEN trimEnd(SubSeq(s, 1, Len(s) - 1))
  ELSE s

trim(s) == trimEnd(trimStart(s))

\* s.includes(sub)
includes(s, sub) ==
  \E i \in 1..(Len(s) - Len(sub) + 1) : SubSeq(s, i, i + Len(sub) - 1) = sub

\* s.charAt(0)
charAt0(s) == IF s = "" THEN "" ELSE Head(s)

\* s.slice(1)
slice1(s) == IF s = "" THEN "" ELSE Tail(s)

(***************************************************************************)
(* The static lookup tables, in declaration order.                         *)
(***************************************************************************)
Pair(lon, lat) == [lon |-> lon, lat |-> lat]

cityCoordinates ==
  <<<<"new york, usa", Pair("-74.006", "40.7128")>>,
    <<"san francisco, usa", Pair("-122.4194", "37.7749")>>,
    <<"los angeles, usa", Pair("-118.2437", "34.0522")>>,
    <<"toronto, canada", Pair("-79.3832", "43.6532")>>,
    <<"vancouver, canada", Pair("-123.1207", "49.2827")>>,
    <<"austin, usa", Pair("-97.7431", "30.2672")>>,
    <<"chicago, usa", Pair("-87.6298", "41.8781")>>,
    <<"london, uk", Pair("-0.1276", "51.5074")>>,
    <<"paris, france", Pair("2.3522", "48.8566")>>,
    <<"berlin, germany", Pair("13.4050", "52.5200")>>,
    <<"munich, germany", Pair("11.5820", "48.1351")>>,
    <<"amsterdam, netherlands", Pair("4.9041", "52.3676")>>,
    <<"copenhagen, denmark", Pair("12.5683", "55.6761")>>,
    <<"stockholm, sweden", Pair("18.0686", "59.3293")>>,
    <<"zurich, switzerland", Pair("8.5417", "47.3769")>>,
    <<"dublin, ireland", Pair("-6.2603", "53.3498")>>,
    <<"singapore", Pair("103.8198", "1.3521")>>,
    <<"sydney, australia", Pair("151.2093", "-33.8688")>>,
    <<"melbourne, australia", Pair("144.9631", "-37.8136")>>,
    <<"tokyo, japan", Pair("139.6917", "35.6895")>>,
    <<"seoul, south korea", Pair("126.9780", "37.5665")>>,
    <<"beijing, china", Pair("116.4074", "39.9042")>>,
    <<"shanghai, china", Pair("121.4737", "31.2304")>>,
    <<"mumbai, india", Pair("72.8777", "19.0760")>>,
    <<"bengaluru, india", Pair("77.5946", "12.9716")>>,
    <<"dubai, uae", Pair("55.2708", "25.2048")>>,
    <<"abu dhabi, uae", Pair("54.3773", "24.4539")>>,
    <<"riyadh, saudi arabia", Pair("46.6753", "24.7136")>>,
    <<"doha, qatar", Pair("51.5310", "25.2854")>>,
    <<"tel aviv, israel", Pair("34.7818", "32.0853")>>,
    <<"istanbul, turkey", Pair("28.9784", "41.0082")>>,
    <<"madrid, spain", Pair("-3.7038", "40.4168")>>,
    <<"barcelona, spain", Pair("2.1734", "41.3851")>>,
    <<"rome, italy", Pair("12.4964", "41.9028")>>,
    <<"milan, italy", Pair("9.1900", "45.4642")>>,
    <<"brussels, belgium", Pair("4.3517", "50.8503")>>,
    <<"vienna, austria", Pair("16.3738", "48.2082")>>,
    <<"warsaw, poland", Pair("21.0122", "52.2297")>>,
    <<"oslo, norway", Pair("10.7522", "59.9139")>>,
    <<"helsinki, finland", Pair("24.9384", "60.1699")>>,
    <<"sao paulo, brazil", Pair("-46.6333", "-23.5505")>>,
    <<"buenos aires, argentina", Pair("-58.3816", "-34.6037")>>,
    <<"cape town, south africa", Pair("18.4241", "-33.9249")>>,
    <<"johannesburg, south africa", Pair("28.0473", "-26.2041")>>,
    <<"cairo, egypt", Pair("31.2357", "30.0444")>> >>
countryCoordinates ==
  <<<<"usa", Pair("-95.7129", "37.0902")>>,
    <<"canada", Pair("-106.3468", "56.1304")>>,
    <<"uk", Pair("-3.435", "55.378")>>,
    <<"france", Pair("2.2137", "46.2276")>>,
    <<"germany", Pair("10.4515", "51.1657")>>,
    <<"australia", Pair("133.7751", "-25.2744")>>,
    <<"japan", Pair("138.2529", "36.2048")>>,
    <<"china", Pair("104.1954", "35.8617")>>,
    <<"india", Pair("78.9629", "20.5937")>>,
    <<"brazil", Pair("-51.9253", "-14.2350")>>,
    <<"south africa", Pair("22.9375", "-30.5595")>> >>


\* Object.keys(table): the own keys in declaration order
OwnKeys(table) == [i \in 1..Len(table) |-> table[i][1]]

OwnHas(table, k) == \E i \in 1..Len(table) : table[i][1] = k

OwnGet(table, k) == table[CHOOSE i \in 1..Len(table) : table[i][1] = k][2]

\* The tables and the stats accumulator are object literals, so a bracket
\* read that misses the own keys falls through to Object.prototype.  These
\* are the names found there; each holds a function or an object (truthy).
ObjectPrototypeKeys ==
  { "constructor", "__proto__", "hasOwnProperty", "isPrototypeOf",
    "propertyIsEnumerable", "toString", "toLocaleString", "valueOf",
    "__defineGetter__", "__defineSetter__", "__lookupGetter__",
    "__lookupSetter__" }

\* the value an inherited name evaluates to, e.g. the function Object for
\* "constructor" and Object.prototype for "__proto__"
Builtin(k) == [builtin |-> k]

\* table[k] as JavaScript evaluates it
BracketRead(table, k) ==
  IF OwnHas(table, k) THEN [found |-> TRUE, value |-> OwnGet(table, k)]
  ELSE IF k \in ObjectPrototypeKeys THEN [found |-> TRUE, value |-> Builtin(k)]
  ELSE [found |-> FALSE]

(***************************************************************************)
(* JSON.parse on the texts the model feeds it.                             *)
(***************************************************************************)
ParseOk(v) == [ok |-> TRUE, value |-> v]
SyntaxError == [ok |-> FALSE]

JSONparse(text) ==
  CASE text = "null" -> ParseOk(Null)
    [] text = "5" -> ParseOk(Num(5))
    [] text = "[\"Tokyo, Japan\"]" -> ParseOk(Arr(<<Str("Tokyo, Japan")>>))
    [] text = "{\"location\":5}" -> ParseOk(Obj([location |-> Num(5)]))
    [] text = "{\"location\":\"\"}" -> ParseOk(Obj([location |-> Str("")]))
    [] text = "{\"location\":\"Tokyo, Japan\"}"
         -> ParseOk(Obj([location |-> Str("Tokyo, Japan")]))
    [] text = "{\"location\":\" tokyo, JAPAN \"}"
         -> ParseOk(Obj([location |-> Str(" tokyo, JAPAN ")]))
    [] text = "{\"location\":\"Berlin, Germany\"}"
         -> ParseOk(Obj([location |-> Str("Berlin, Germany")]))
    [] text = "{\"location\":\"somewhere in Germany\"}"
         -> ParseOk(Obj([location |-> Str("somewhere in Germany")]))
    [] text = "{\"location\":\"Canada and USA\"}"
         -> ParseOk(Obj([location |-> Str("Canada and USA")]))
    [] text = "{\"location\":\"Lausanne\"}"
         -> ParseOk(Obj([location |-> Str("Lausanne")]))
    [] text = "{\"location\":\"Atlantis\"}"
         -> ParseOk(Obj([location |-> Str("Atlantis")]))
    [] text = "{\"location\":\"constructor\"}"
         -> ParseOk(Obj([location |-> Str("constructor")]))
    [] text = "{\"location\":\"Constructor\"}"
         -> ParseOk(Obj([location |-> Str("Constructor")]))
    [] text = "{\"details\":{\"location\":\"Paris, France\"}}"
         -> ParseOk(Obj([details |-> Obj([location |-> Str("Paris, France")])]))
    [] text = "{\"location\":\"Tokyo, Japan\",\"details\":{\"location\":\"Atlantis\"}}"
         -> ParseOk(Obj([location |-> Str("Tokyo, Japan"),
                         details |-> Obj([location |-> Str("Atlantis")])]))
    [] text = "{\"location\":\"Tokyo, Japan\",\"details\":{\"products\":[]}}"
         -> ParseOk(Obj([location |-> Str("Tokyo, Japan"),
                         details |-> Obj([products |-> Arr(<<>>)])]))
    [] text = "{}" -> ParseOk(EmptyObj)
    [] text = "{\"status\":\"\",\"processed\":null,\"total\":0}"
         -> ParseOk(Obj([status |-> Str(""), processed |-> Null,
                         total |-> Num(0)]))
    [] text = "{\"status\":\"running\",\"processed\":1,\"total\":4,\"percent_complete\":25}"
         -> ParseOk(Obj([status |-> Str("running"), processed |-> Num(1),
                         total |-> Num(4), percent_complete |-> Num(25)]))
    [] text = "{\"status\":\"completed\",\"processed\":4,\"total\":4,\"percent_complete\":100,\"completed_at\":\"t1\"}"
         -> ParseOk(Obj([status |-> Str("completed"), processed |-> Num(4),
                         total |-> Num(4), percent_complete |-> Num(100),
                         completed_at |-> Str("t1")]))
    [] text = "{\"status\":\"error\",\"processed\":1,\"total\":4,\"percent_complete\":25,\"error\":\"boom\"}"
         -> ParseOk(Obj([status |-> Str("error"), processed |-> Num(1),
                         total |-> Num(4), percent_complete |-> Num(25),
                         error |-> Str("boom")]))
    [] text = "{\"isStarred\":true}" -> ParseOk(Obj([isStarred |-> Bool(TRUE)]))
    [] text = "{\"isStarred\":false}" -> ParseOk(Obj([isStarred |-> Bool(FALSE)]))
    [] text = "{\"isRead\":true}" -> ParseOk(Obj([isRead |-> Bool(TRUE)]))
    [] text = "{\"isRead\":false,\"isStarred\":true}"
         -> ParseOk(Obj([isRead |-> Bool(FALSE), isStarred |-> Bool(TRUE)]))
    [] text = "{\"isStarred\":null}" -> ParseOk(Obj([isStarred |-> Null]))
    [] text = "{\"isRead\":true,\"isStarred\":\"yes\"}"
         -> ParseOk(Obj([isRead |-> Bool(TRUE), isStarred |-> Str("yes")]))
    [] text = "{\"title\":\"x\",\"isStarred\":true}"
         -> ParseOk(Obj([title |-> Str("x"), isStarred |-> Bool(TRUE)]))
    [] OTHER -> SyntaxError

\* String(v) for the argument of JSON.parse, which converts it to text
ToStringArg(v) ==
  CASE v.type = "string" -> v.v
    [] v.type = "null" -> "null"
    [] OTHER -> "undefined"

(***************************************************************************)
(* The body of the forEach callback, lines 102-168.                        *)
(***************************************************************************)
\* line 105: item.region || "Global"
regionOrGlobal(item) ==
  IF Truthy(item.region) THEN item.region.v ELSE "Global"

\* variant of parsedAfterTry that unwraps whenever a nested details value is
\* there, without looking for its location
parsedAlwaysUnwrapped(item) ==
  LET r == JSONparse(ToStringArg(item.details))
  IN IF ~r.ok THEN EmptyObj
     ELSE IF ReadThrows(r.value) THEN r.value
     ELSE LET d == Get(r.value, "details")
          IN IF Truthy(d) THEN d ELSE r.value

\* lines 122-126: the value of `parsed` when the try statement is left.
\* A SyntaxError leaves {}.  When JSON.parse returns null, the assignment
\* has happened and the read of parsed.details throws inside the try.
parsedAfterTry(item) ==
  LET r == JSONparse(ToStringArg(item.details))
  IN IF ~r.ok THEN EmptyObj
     ELSE IF ReadThrows(r.value) THEN r.value
     ELSE LET d == Get(r.value, "details")
          IN IF Truthy(d) /\ Truthy(Get(d, "location")) THEN d ELSE r.value

\* line 131
normalize(s) == trim(toLowerCase(s))

RECURSIVE findFrom(_, _, _)
\* Array.prototype.find over keys from index i, 0 when nothing matches
findFrom(keys, loc, i) ==
  IF i > Len(keys) THEN 0
  ELSE IF includes(loc, keys[i]) THEN i
  ELSE findFrom(keys, loc, i + 1)

RECURSIVE findLastFrom(_, _, _)
findLastFrom(keys, loc, i) ==
  IF i < 1 THEN 0
  ELSE IF includes(loc, keys[i]) THEN i
  ELSE findLastFrom(keys, loc, i - 1)

\* variant of countryMatch that returns the last matching key
countryMatchLast(loc) ==
  findLastFrom(OwnKeys(countryCoordinates), loc, Len(countryCoordinates))

\* line 136: index in countryCoordinates of the key find returns, or 0
countryMatch(loc) == findFrom(OwnKeys(countryCoordinates), loc, 1)

\* variant of capitalize that puts the whole key in upper case
capitalizeAll(s) == toUpperCase(s)

\* line 138
capitalize(s) == toUpperCase(charAt0(s)) \o slice1(s)

NoCoords == [found |-> FALSE]
Coords(c) == [found |-> TRUE, value |-> c]

\* lines 146-150: the region centre of a label, if it is one of the five
regionCenter(locationName) ==
  CASE locationName = "MENA" -> Coords(Pair("45", "25"))
    [] locationName = "Europe" -> Coords(Pair("15", "50"))
    [] locationName = "North America" -> Coords(Pair("-100", "40"))
    [] locationName = "APAC" -> Coords(Pair("100", "20"))
    [] locationName = "South America" -> Coords(Pair("-60", "-15"))
    [] OTHER -> NoCoords

Thrown(loc) == [outcome |-> "throw", location |-> loc]
Unplaced(loc) == [outcome |-> "global", location |-> loc]
Upsert(name, c, loc) ==
  [outcome |-> "upsert", locationName |-> name, finalCoords |-> c,
   location |-> loc]

\* lines 144-155 for an item that got no coordinates from its location
regionFallback(item, loc) ==
  LET c == regionCenter(regionOrGlobal(item))
  IN IF c.found THEN Upsert(regionOrGlobal(item), c.value, loc)
     ELSE Unplaced(loc)

\* variant of locateAt that tries the country table before the city table
locateAtCountryFirst(item, location, loc) ==
  LET city == BracketRead(cityCoordinates, loc)
      m == countryMatch(loc)
  IN IF m # 0
     THEN Upsert(capitalize(countryCoordinates[m][1]),
                 countryCoordinates[m][2], location)
     ELSE IF city.found THEN Upsert(location.v, city.value, location)
          ELSE regionFallback(item, location)

\* lines 132-141 for the normalised location loc
locateAt(item, location, loc) ==
  LET city == BracketRead(cityCoordinates, loc)
      m == countryMatch(loc)
  IN IF city.found THEN Upsert(location.v, city.value, location)
     ELSE IF m # 0
          THEN Upsert(capitalize(countryCoordinates[m][1]),
                      countryCoordinates[m][2], location)
          ELSE regionFallback(item, location)

\* lines 130-142 for a location that is a string
locate(item, location) ==
  CHOOSE r \in {locateAt(item, location, loc) :
                  loc \in {normalize(location.v)}} : TRUE

\* lines 105-155: what one item resolves to.  Reading parsed.location when
\* parsed is null, and calling toLowerCase on a truthy location that is not
\* a string, throw a TypeError outside the try statement.
resolveItem(item) ==
  LET parsed == parsedAfterTry(item)
  IN IF ReadThrows(parsed) THEN Thrown(Undefined)
     ELSE LET location == Get(parsed, "location")
          IN IF ~Truthy(location) THEN regionFallback(item, location)
             ELSE IF location.type # "string" THEN Thrown(location)
             ELSE locate(item, location)

\* lines 158-163
newBucket(name, c) ==
  [count |-> 0, maxThreat |-> 0, name |-> name, coordinates |-> c]

Max(a, b) == IF a >= b THEN a ELSE b

\* lines 166-167
countItem(bucket, threatLevel) ==
  [bucket EXCEPT !.count = @ + 1, !.maxThreat = Max(@, threatLevel)]

\* variant of upsertBucket that counts the item only in an existing bucket
upsertBucketElseCount(st, name, c, threatLevel) ==
  IF name \in DOMAIN st
  THEN [st EXCEPT ![name] = countItem(@, threatLevel)]
  ELSE st @@ (name :> newBucket(name, c))

\* lines 157-167 when stats[locationName] is an own property or missing
upsertBucket(st, name, c, threatLevel) ==
  IF name \in DOMAIN st
  THEN [st EXCEPT ![name] = countItem(@, threatLevel)]
  ELSE st @@ (name :> countItem(newBucket(name, c), threatLevel))

(***************************************************************************)
(* Inputs: the news items the page may hand to the component.              *)
(***************************************************************************)
Item(r, d, t) == [region |-> r, details |-> d, threatLevel |-> t]

\* values of the nullable region column
Regions ==
  { Null, Str(""), Str("MENA"), Str("Europe"), Str("North America"),
    Str("APAC"), Str("South America"), Str("europe"), Str("Asia") }

\* values of item.details: absent, or a text
DetailsTexts ==
  { "not json", "null", "5", "[\"Tokyo, Japan\"]",
    "{\"location\":5}", "{\"location\":\"\"}",
    "{\"location\":\"Tokyo, Japan\"}",
    "{\"location\":\" tokyo, JAPAN \"}",
    "{\"location\":\"Berlin, Germany\"}",
    "{\"location\":\"somewhere in Germany\"}",
    "{\"location\":\"Canada and USA\"}",
    "{\"location\":\"Lausanne\"}",
    "{\"location\":\"Atlantis\"}",
    "{\"location\":\"constructor\"}",
    "{\"location\":\"Constructor\"}",
    "{\"details\":{\"location\":\"Paris, France\"}}",
    "{\"location\":\"Tokyo, Japan\",\"details\":{\"location\":\"Atlantis\"}}",
    "{\"location\":\"Tokyo, Japan\",\"details\":{\"products\":[]}}" }

Details == {Undefined} \cup {Str(t) : t \in DetailsTexts}

ThreatLevels == {-2, 2, 5}

\* every details value on an item with a recognised region, every region
\* on an item without details, the details that resolve to no place on an
\* item without region, and every threat level on items sharing a bucket
NewsItems ==
  {Item(Str("Europe"), d, 2) : d \in Details}
    \cup {Item(r, Undefined, 2) : r \in Regions}
    \cup {Item(Null, Str(t), 2) :
            t \in {"null", "{\"location\":\"Atlantis\"}",
                   "{\"location\":\"constructor\"}"}}
    \cup {Item(Str("Europe"), Undefined, t) : t \in ThreatLevels}
    \cup {Item(Str("Europe"), Str("{\"location\":\"Tokyo, Japan\"}"), 5)}

(***************************************************************************)
(* State of one SurveillanceMap instance.                                  *)
(***************************************************************************)
VARIABLES
  news,         \* the news prop
  pc,           \* "forEach", "returned" or "thrown"
  idx,          \* index of the item the forEach visits next
  stats,        \* own properties of the local stats object
  statsKeys,    \* their insertion order, the order of Object.values
  global,       \* the local counter of unplaced items
  result,       \* the value of the memo: regionStats and globalCount
  run,          \* how many times the memo has been computed
  firstResult,  \* the memo of the first computation
  tainted,      \* inherited objects that had count/maxThreat written to
  placed        \* for each visited item, what the callback did with it

mapVars ==
  <<news, pc, idx, stats, statsKeys, global, result, run, firstResult,
    tainted, placed>>

(***************************************************************************)
(* State of the other parts of the dashboard, each a record of the values  *)
(* the part holds.  The parts are specified further down.                  *)
(***************************************************************************)
VARIABLES
  render,       \* marker rendering of SurveillanceMap: regionStats, sizes
  home,         \* the page: stored rows and the answers to region requests
  api,          \* the status endpoint: marker file, position of GET, answer
  button,       \* DashboardRefreshButton, its requests and the refresh runs
  db,           \* the news store behind PATCH /api/news/[id] and its last exchange
  card,         \* NewsCard: its starred state, the PATCH requests in flight, the stored item
  filter,       \* ThreatFilter: its prop, its two levels, the debounce timer, navigations
  sidebar,      \* Sidebar: the URL, its filter state, the navigations it pushed
  listing       \* the competitor list of the Sidebar beside the news query of the page

vars == <<mapVars, render, home, api, button, db, card, filter, sidebar, listing>>

\* everything but the aggregation
notMapVars == <<render, home, api, button, db, card, filter, sidebar, listing>>

\* everything but the marker rendering
notRenderVars == <<mapVars, home, api, button, db, card, filter, sidebar, listing>>

\* everything but the page
notHomeVars == <<mapVars, render, api, button, db, card, filter, sidebar, listing>>

\* everything but the status endpoint
notApiVars == <<mapVars, render, home, button, db, card, filter, sidebar, listing>>

\* everything but the refresh button
notButtonVars == <<mapVars, render, home, api, db, card, filter, sidebar, listing>>

\* everything but the news store behind PATCH /api/news/[id] and its last exchange
notDbVars == <<mapVars, render, home, api, button, card, filter, sidebar, listing>>

\* everything but NewsCard
notCardVars == <<mapVars, render, home, api, button, db, filter, sidebar, listing>>

\* everything but ThreatFilter
notFilterVars == <<mapVars, render, home, api, button, db, card, sidebar, listing>>

\* everything but Sidebar
notSidebarVars == <<mapVars, render, home, api, button, db, card, filter, listing>>

\* everything but the competitor list of the Sidebar beside the news query of the page
notListingVars == <<mapVars, render, home, api, button, db, card, filter, sidebar>>

\* marker rendering that has nothing to draw and has not run
RenderParked ==
  render = [regionStats |-> <<>>, rendered |-> FALSE, maxCount |-> 0,
            sizes |-> <<>>]

NoResult == [regionStats |-> <<>>, globalCount |-> -1]

MapInit ==
  /\ news \in UNION {[1..n -> NewsItems] : n \in 0..MaxItems}
  /\ pc = "forEach"
  /\ idx = 1
  /\ stats = <<>>
  /\ statsKeys = <<>>
  /\ global = 0
  /\ result = NoResult
  /\ run = 1
  /\ firstResult = NoResult
  /\ tainted = {}
  /\ placed = <<>>

\* One invocation of the forEach callback (lines 102-168).
ForEachItem ==
  /\ pc = "forEach"
  /\ idx <= Len(news)
  /\ \E r \in {resolveItem(news[idx])} :
     LET item == news[idx]
     IN CASE r.outcome = "throw" ->
               /\ pc' = "thrown"
               /\ placed' = Append(placed, [at |-> "throw", name |-> "",
                                            location |-> r.location])
               /\ UNCHANGED <<idx, stats, statsKeys, global, tainted>>
          [] r.outcome = "global" ->
               /\ global' = global + 1
               /\ idx' = idx + 1
               /\ placed' = Append(placed, [at |-> "global", name |-> "",
                                            location |-> r.location])
               /\ UNCHANGED <<pc, stats, statsKeys, tainted>>
          [] r.outcome = "upsert"
               /\ r.locationName \notin DOMAIN stats
               /\ r.locationName \in ObjectPrototypeKeys ->
               \* stats[locationName] is an inherited function or object:
               \* no bucket is created and count/maxThreat are written on it
               /\ tainted' = tainted \cup {r.locationName}
               /\ idx' = idx + 1
               /\ placed' = Append(placed, [at |-> "inherited",
                                            name |-> r.locationName,
                                            location |-> r.location])
               /\ UNCHANGED <<pc, stats, statsKeys, global>>
          [] OTHER ->
               /\ stats' = upsertBucket(stats, r.locationName, r.finalCoords,
                                        item.threatLevel)
               /\ statsKeys' = IF r.locationName \in DOMAIN stats
                               THEN statsKeys
                               ELSE Append(statsKeys, r.locationName)
               /\ idx' = idx + 1
               /\ placed' = Append(placed, [at |-> "bucket",
                                            name |-> r.locationName,
                                            location |-> r.location])
               /\ UNCHANGED <<pc, global, tainted>>
  /\ UNCHANGED <<news, result, run, firstResult>>
  /\ UNCHANGED notMapVars

\* line 170: the forEach is over and the memo value is built
Return ==
  /\ pc = "forEach"
  /\ idx > Len(news)
  /\ pc' = "returned"
  /\ result' = [regionStats |-> [i \in 1..Len(statsKeys) |-> stats[statsKeys[i]]],
                globalCount |-> global]
  /\ firstResult' = IF run = 1 THEN result' ELSE firstResult
  /\ UNCHANGED <<news, idx, stats, statsKeys, global, run, tainted, placed>>
  /\ UNCHANGED notMapVars

\* lines 98, 171: the memo is computed again for an array with the same
\* items; the locals start afresh, objects shared by all calls do not
Recompute ==
  /\ pc = "returned"
  /\ run < MaxRuns
  /\ run' = run + 1
  /\ pc' = "forEach"
  /\ idx' = 1
  /\ stats' = <<>>
  /\ statsKeys' = <<>>
  /\ global' = 0
  /\ placed' = <<>>
  /\ UNCHANGED <<news, result, firstResult, tainted>>
  /\ UNCHANGED notMapVars

MapNext == ForEachItem \/ Return \/ Recompute

\* the aggregation before any item is visited, for an empty array
MapParked ==
  /\ news = <<>>
  /\ pc = "forEach"
  /\ idx = 1
  /\ stats = <<>>
  /\ statsKeys = <<>>
  /\ global = 0
  /\ result = NoResult
  /\ run = 1
  /\ firstResult = NoResult
  /\ tainted = {}
  /\ placed = <<>>

\* a page over an empty table that has served no request
HomeParked == home = [rows |-> <<>>, answers |-> <<>>]

\* a status endpoint without marker file that has served no request
ApiParked ==
  api = [file |-> [kind |-> "absent"], pc |-> "idle",
         checked |-> [kind |-> "absent"], last |-> <<>>, requests |-> 0,
         writes |-> 0]

\* a mounted refresh button that was never clicked, no marker file
ButtonParked ==
  button = [isRefreshing |-> FALSE, status |-> Null, showSuccess |-> FALSE,
            pollInterval |-> FALSE, hideTimers |-> 0, clicks |-> 0,
            ticks |-> 0, posts |-> <<>>, runs |-> <<>>, polls |-> EmptyBag,
            file |-> [kind |-> "absent"]]

\* an empty news table that has served no PATCH
DbParked ==
  db = [store |-> <<>>, requests |-> 0, last |-> <<>>]

\* a NewsCard of an unstarred item that was never clicked
CardParked ==
  card = [isRead |-> FALSE, isStarred |-> FALSE, toggles |-> 0,
          patches |-> EmptyBag, store |-> <<>>]

\* a ThreatFilter at level 1 whose debounce timer has run out
FilterParked ==
  filter = [currentLevel |-> 1, localLevel |-> 1, debouncedLevel |-> 1,
            timer |-> 0, pending |-> <<>>, rested |-> {}, pushes |-> {},
            slides |-> 0, externals |-> 0]

\* the Sidebar before it is mounted
SidebarParked ==
  sidebar = [url |-> <<>>, selectedCompetitor |-> Null, selectedRegion |-> Null,
             minThreat |-> Num(1), unreadOnly |-> FALSE, starredOnly |-> FALSE,
             pending |-> <<>>, changes |-> 0, urlChanges |-> 0]

\* the competitor list before the competitors are loaded
ListingParked ==
  listing = [regions |-> <<>>, selectedRegion |-> Null,
             filteredCompetitors |-> {}, news |-> {}]

Init == MapInit /\ RenderParked /\ HomeParked /\ ApiParked /\ ButtonParked /\ DbParked /\ CardParked /\ FilterParked /\ SidebarParked /\ ListingParked

Next == MapNext

Spec == Init /\ [][Next]_vars

(***************************************************************************)
(* Vocabulary of the properties.                                           *)
(***************************************************************************)
CityKeys == {cityCoordinates[i][1] : i \in 1..Len(cityCoordinates)}

CountryKeys == {countryCoordinates[i][1] : i \in 1..Len(countryCoordinates)}

RegionLabels == {"MENA", "Europe", "North America", "APAC", "South America"}

\* the items visited so far in this computation
Visited == 1..Len(placed)

RECURSIVE SumCounts(_)
SumCounts(buckets) ==
  IF buckets = <<>> THEN 0 ELSE Head(buckets).count + SumCounts(Tail(buckets))

\* the location a details value supplies: the one of the nested details
\* object when that carries a string, else the top-level one
SuppliedLocation(d) ==
  LET r == JSONparse(ToStringArg(d))
  IN IF ~r.ok \/ r.value.type # "object" THEN Undefined
     ELSE LET nested == Get(r.value, "details")
          IN IF nested.type = "object" /\ Get(nested, "location").type = "string"
             THEN Get(nested, "location")
             ELSE Get(r.value, "location")

HasLocationString(item) == SuppliedLocation(item.details).type = "string"

\* the location of an item as written and as lowercased and trimmed; the
\* set is empty when the item supplies no location string
Located(item) ==
  {[written |-> l.v, loc |-> trim(toLowerCase(l.v))] :
     l \in {x \in {SuppliedLocation(item.details)} : x.type = "string"}}

ContainsCountry(loc) == \E k \in CountryKeys : includes(loc, k)

MatchesCity(item) == \E L \in Located(item) : L.loc \in CityKeys

MatchesCountry(item) == \E L \in Located(item) : ContainsCountry(L.loc)

\* neither table matches: no location string, or one that matches nothing
MatchesNothing(item) ==
  \A L \in Located(item) : L.loc \notin CityKeys /\ ~ContainsCountry(L.loc)

\* the label of an item: its region, or "Global" when missing or empty
LabelOf(item) ==
  IF item.region.type = "string" /\ item.region.v # "" THEN item.region.v
  ELSE "Global"

PlacedInBucket(i, name) == placed[i].at = "bucket" /\ placed[i].name = name

\* the threat levels of the visited items placed in bucket name
ThreatsIn(name) == {news[i].threatLevel : i \in {j \in Visited : PlacedInBucket(j, name)}}

(***************************************************************************)
(* C1: for every input, the bucket counts plus globalCount add up to the  *)
(* number of input items.                                                  *)
(***************************************************************************)
C1_CountsAddUp ==
  pc = "returned" =>
    SumCounts(result.regionStats) + result.globalCount = Len(news)

(***************************************************************************)
(* C2: an item whose details supply no location string never makes the    *)
(* aggregation raise; it is processed as an item without location, that   *)
(* is, by its region label alone.                                          *)
(***************************************************************************)
C2_DetailsNeverRaise ==
  \A i \in Visited :
    ~HasLocationString(news[i]) =>
      /\ placed[i].at # "throw"
      /\ IF LabelOf(news[i]) \in RegionLabels
         THEN PlacedInBucket(i, LabelOf(news[i]))
         ELSE placed[i].at = "global"

(***************************************************************************)
(* C3: in the output, each bucket's maxThreat is the maximum threatLevel  *)
(* of the items placed in it, whatever integers those are.                 *)
(***************************************************************************)
C3_MaxThreatIsTrueMax ==
  pc = "returned" =>
    \A b \in 1..Len(result.regionStats) :
      LET bucket == result.regionStats[b]
      IN /\ bucket.maxThreat \in ThreatsIn(bucket.name)
         /\ \A t \in ThreatsIn(bucket.name) : t <= bucket.maxThreat

(***************************************************************************)
(* C4: every bucket has count >= 1, both while the items are visited and  *)
(* in the output; a step that creates a bucket counts its item in it, and  *)
(* a step that increments the global counter creates no bucket.            *)
(***************************************************************************)
C4_BucketsCounted ==
  /\ \A k \in DOMAIN stats : stats[k].count >= 1
  /\ \A b \in 1..Len(result.regionStats) : result.regionStats[b].count >= 1
  /\ \A k \in DOMAIN stats : \E i \in Visited : PlacedInBucket(i, k)
  /\ Cardinality(DOMAIN stats) + global <= Len(placed)

C4_NoEmptyBucket ==
  []C4_BucketsCounted
    /\ [][/\ global' = global + 1 => stats' = stats
          /\ \A k \in DOMAIN stats' :
               k \notin DOMAIN stats => stats'[k].count = 1 /\ global' = global]_vars

\* an output with a bucket and an unplaced item
C4_Witness ==
  /\ pc = "returned"
  /\ Len(result.regionStats) >= 1
  /\ result.globalCount >= 1

(***************************************************************************)
(* C5: computing the aggregation again on the same input gives the same   *)
(* buckets, in the same order, and the same globalCount; an item whose     *)
(* location contains several country keys (and is no city) always goes to  *)
(* the bucket of the first of them in the declaration order of the table.  *)
(***************************************************************************)
FirstCountryIn(loc) ==
  CHOOSE m \in 1..Len(countryCoordinates) :
    /\ includes(loc, countryCoordinates[m][1])
    /\ \A j \in 1..(m - 1) : ~includes(loc, countryCoordinates[j][1])

SeveralCountries(loc) ==
  /\ loc \notin CityKeys
  /\ Cardinality({k \in CountryKeys : includes(loc, k)}) >= 2

C5_Deterministic ==
  /\ (pc = "returned" /\ run >= 2) => result = firstResult
  /\ \A i \in Visited :
       \A L \in Located(news[i]) :
         SeveralCountries(L.loc) =>
           LET k == countryCoordinates[FirstCountryIn(L.loc)][1]
           IN PlacedInBucket(i, UpperChar(Head(k)) \o Tail(k))

\* a second computation has returned for an input with an ambiguous location
C5_Witness ==
  /\ pc = "returned"
  /\ run = 2
  /\ \E i \in Visited : \E L \in Located(news[i]) : SeveralCountries(L.loc)

(***************************************************************************)
(* C6: an item whose location, lowercased and trimmed, is a key of the    *)
(* city table is placed in the bucket named by the location as written, at *)
(* that city's coordinates, whatever its region and whatever country key   *)
(* the location contains.                                                  *)
(***************************************************************************)
C6_CityFirst ==
  \A i \in Visited :
    \A L \in Located(news[i]) :
      L.loc \in CityKeys =>
        /\ PlacedInBucket(i, L.written)
        /\ L.written \in DOMAIN stats
        /\ stats[L.written].coordinates = OwnGet(cityCoordinates, L.loc)

\* a city that contains a country key, on an item with a recognised region
C6_Witness ==
  \E i \in Visited :
    /\ MatchesCity(news[i])
    /\ MatchesCountry(news[i])
    /\ LabelOf(news[i]) \in RegionLabels
    /\ \E L \in Located(news[i]) : PlacedInBucket(i, L.written)

(***************************************************************************)
(* C7: an item whose normalised location is no city key but contains a    *)
(* country key is placed in the bucket named by a contained country key    *)
(* with its first letter in upper case, at that country's coordinates,     *)
(* whatever its region.                                                    *)
(***************************************************************************)
C7_CountrySecond ==
  \A i \in Visited :
    \A L \in Located(news[i]) :
      (L.loc \notin CityKeys /\ ContainsCountry(L.loc)) =>
        \E k \in CountryKeys :
          LET name == UpperChar(Head(k)) \o Tail(k)
          IN /\ includes(L.loc, k)
             /\ PlacedInBucket(i, name)
             /\ name \in DOMAIN stats
             /\ stats[name].coordinates = OwnGet(countryCoordinates, k)

\* a country match on an item with a recognised region
C7_Witness ==
  \E i \in Visited :
    /\ ~MatchesCity(news[i])
    /\ MatchesCountry(news[i])
    /\ LabelOf(news[i]) \in RegionLabels
    /\ PlacedInBucket(i, "Germany")

(***************************************************************************)
(* C8: an item that matches no city and no country (it has no location,   *)
(* or its location matched nothing) and whose region is one of the five    *)
(* region literals is placed in the bucket named by that region, at the    *)
(* region's fixed centre.                                                  *)
(***************************************************************************)
C8_RegionThird ==
  \A i \in Visited :
    (MatchesNothing(news[i]) /\ LabelOf(news[i]) \in RegionLabels) =>
      /\ PlacedInBucket(i, LabelOf(news[i]))
      /\ LabelOf(news[i]) \in DOMAIN stats
      /\ stats[LabelOf(news[i])].coordinates = regionCenter(LabelOf(news[i])).value

(***************************************************************************)
(* C9: visiting an item that matches no city, no country and whose label  *)
(* is none of the five region literals increments globalCount by exactly 1 *)
(* and leaves the buckets as they were: none changed, none created.        *)
(***************************************************************************)
Unresolvable(item) == MatchesNothing(item) /\ LabelOf(item) \notin RegionLabels

C9_UnresolvedOnlyCounts ==
  [][(pc = "forEach" /\ idx <= Len(news) /\ Unresolvable(news[idx])) =>
       (global' = global + 1 /\ stats' = stats /\ statsKeys' = statsKeys)]_vars

(***************************************************************************)
(* C10 as stated: whenever the parsed blob has a nested details object,   *)
(* the location read for resolution is the one of that nested object, so a *)
(* top-level location is not used when the nested object carries none.     *)
(***************************************************************************)
HasNestedDetails(item) ==
  LET r == JSONparse(ToStringArg(item.details))
  IN r.ok /\ r.value.type = "object" /\ Get(r.value, "details").type = "object"

NestedLocation(item) ==
  Get(Get(JSONparse(ToStringArg(item.details)).value, "details"), "location")

TopLevelLocation(item) ==
  Get(JSONparse(ToStringArg(item.details)).value, "location")

C10_AlwaysUnwrapped ==
  \A i \in Visited :
    HasNestedDetails(news[i]) => placed[i].location = NestedLocation(news[i])

(***************************************************************************)
(* C10 amended: when the nested details object carries a truthy location, *)
(* the location read for resolution is that one; when the blob is an       *)
(* object whose nested details is missing or carries no truthy location,   *)
(* the location read is the top-level one.                                 *)
(***************************************************************************)
C10_UnwrappedWhenLocated ==
  \A i \in Visited :
    LET r == JSONparse(ToStringArg(news[i].details))
    IN (r.ok /\ r.value.type = "object") =>
         IF HasNestedDetails(news[i]) /\ Truthy(NestedLocation(news[i]))
         THEN placed[i].location = NestedLocation(news[i])
         ELSE placed[i].location = TopLevelLocation(news[i])

\* both cases: a nested location that hides a top-level one, and a nested
\* object without location whose item is placed by the top-level location
C10_Witness ==
  /\ \E i \in Visited :
       /\ HasNestedDetails(news[i])
       /\ Truthy(NestedLocation(news[i]))
       /\ Truthy(TopLevelLocation(news[i]))
       /\ placed[i].location = NestedLocation(news[i])
  /\ \E i \in Visited :
       /\ HasNestedDetails(news[i])
       /\ ~Truthy(NestedLocation(news[i]))
       /\ PlacedInBucket(i, TopLevelLocation(news[i]).v)

(***************************************************************************)
(* C11: in every output, each bucket's coordinates are a value of the     *)
(* city table, the country table or the region centres, never the [0, 0]   *)
(* default, and they are the coordinates every item placed in that bucket  *)
(* resolved to.                                                            *)
(***************************************************************************)
TableCoordinates ==
  {cityCoordinates[i][2] : i \in 1..Len(cityCoordinates)}
    \cup {countryCoordinates[i][2] : i \in 1..Len(countryCoordinates)}
    \cup {regionCenter(l).value : l \in RegionLabels}

C11_CoordinatesFromTables ==
  pc = "returned" =>
    /\ \A b \in 1..Len(result.regionStats) :
         /\ result.regionStats[b].coordinates \in TableCoordinates
         /\ result.regionStats[b].coordinates # Pair("0", "0")
    /\ \A i \in Visited :
         placed[i].at = "bucket" =>
           stats[placed[i].name].coordinates = resolveItem(news[i]).finalCoords

(***************************************************************************)
(* Marker rendering of SurveillanceMap, lines 173-174 and 303-304.         *)
(* A size is the exact rational num/den; d3's scaleLinear with domain      *)
(* [0, maxCount] and range [8, 24] maps x to 8 + (24 - 8) * x / maxCount.  *)
(***************************************************************************)
\* most buckets in a rendered output, and the largest count of one bucket
MaxBuckets == 3
MaxBucketCount == 4

RECURSIVE MaxOf(_, _)
\* Math.max(...counts, floor)
MaxOf(counts, floor) ==
  IF counts = <<>> THEN floor
  ELSE MaxOf(Tail(counts), Max(Head(counts), floor))

\* variant of maxCount without the trailing 1: the largest count, 0 if none
maxCountNoFloor(regionStats) ==
  MaxOf([i \in 1..Len(regionStats) |-> regionStats[i].count], 0)

\* line 173
maxCount(regionStats) ==
  MaxOf([i \in 1..Len(regionStats) |-> regionStats[i].count], 1)

RangeLow == 8
RangeHigh == 24

\* line 174: popScale(x) for the domain [0, m]
popScale(x, m) ==
  [num |-> RangeLow * m + (RangeHigh - RangeLow) * x, den |-> m]

\* the outputs the aggregation can hand to the rendering: every bucket has
\* been counted at least once
RenderInit ==
  /\ \E n \in 0..MaxBuckets :
       \E counts \in [1..n -> 1..MaxBucketCount] :
         render = [regionStats |-> [i \in 1..n |-> [count |-> counts[i]]],
                   rendered |-> FALSE, maxCount |-> 0, sizes |-> <<>>]

\* lines 173-174 and 303-304: one render of the markers
RenderMarkers ==
  /\ ~render.rendered
  /\ \E m \in {maxCount(render.regionStats)} :
       render' = [render EXCEPT
                    !.rendered = TRUE,
                    !.maxCount = m,
                    !.sizes = [i \in 1..Len(render.regionStats) |->
                                 popScale(render.regionStats[i].count, m)]]
  /\ UNCHANGED notRenderVars

InitMarkers ==
  MapParked /\ RenderInit /\ HomeParked /\ ApiParked /\ ButtonParked /\ DbParked /\ CardParked /\ FilterParked /\ SidebarParked /\ ListingParked

SpecMarkers == InitMarkers /\ [][RenderMarkers]_vars

(***************************************************************************)
(* C12: maxCount is the largest bucket count floored at 1 (1 when there   *)
(* are no buckets, so the scale never divides by zero); the size of a      *)
(* bucket is 8 + 16 * count / maxCount, strictly above 8, at most 24, and  *)
(* exactly 24 for a bucket whose count is maxCount.                        *)
(***************************************************************************)
C12_MarkerSize ==
  render.rendered =>
    /\ render.maxCount >= 1
    /\ render.regionStats = <<>> => render.maxCount = 1
    /\ \A i \in 1..Len(render.regionStats) :
         render.regionStats[i].count <= render.maxCount
    /\ render.regionStats # <<>> =>
         \E i \in 1..Len(render.regionStats) :
           render.regionStats[i].count = render.maxCount
    /\ \A i \in 1..Len(render.sizes) :
         LET size == render.sizes[i]
             count == render.regionStats[i].count
         IN /\ size.den > 0
            /\ (size.num - 8 * size.den) * render.maxCount = 16 * count * size.den
            /\ size.num > 8 * size.den
            /\ size.num <= 24 * size.den
            /\ count = render.maxCount => size.num = 24 * size.den

\* a render with a marker of full size and one strictly between 8 and 24
C12_Witness ==
  /\ render.rendered
  /\ \E i, j \in 1..Len(render.sizes) :
       /\ render.sizes[i].num = 24 * render.sizes[i].den
       /\ render.sizes[j].num < 24 * render.sizes[j].den
       /\ render.sizes[j].num > 8 * render.sizes[j].den

(***************************************************************************)
(* The region filter of the page (Home, src/unnamed/part_000 lines 30-66). *)
(* A stored row is represented by its region column; the other filters of  *)
(* the query are independent of the region and left out.                   *)
(***************************************************************************)
\* most rows in the CompetitorNews table
MaxRows == 2

\* lines 35-41, in declaration order
regionMappings ==
  << <<"North America", <<"north america", "us", "usa", "canada", "america">> >>,
     <<"Europe", <<"europe", "uk", "germany", "france", "spain", "italy",
                   "netherlands", "sweden", "denmark", "ireland",
                   "switzerland", "belgium", "austria", "poland", "norway",
                   "finland">> >>,
     <<"MENA", <<"mena", "middle east", "uae", "saudi", "qatar", "dubai",
                 "abu dhabi", "israel", "turkey", "egypt">> >>,
     <<"APAC", <<"apac", "asia", "china", "japan", "korea", "india",
                 "singapore", "australia", "pacific">> >>,
     <<"Global", <<"global">> >> >>

\* variant of regionValOf without the alias
regionValNoAlias(region) == region

\* lines 31-32
regionValOf(region) == IF region = "Middle East" THEN "MENA" ELSE region

\* Prisma's { contains: k, mode: 'insensitive' } on a nullable column
containsInsensitive(column, k) ==
  column.type = "string" /\ includes(toLowerCase(column.v), toLowerCase(k))

\* Prisma's { equals: v, mode: 'insensitive' } on a nullable column
equalsInsensitive(column, v) ==
  column.type = "string" /\ toLowerCase(column.v) = toLowerCase(v)

\* lines 30-51 and 62-66: the rows findMany returns for a region parameter,
\* or a TypeError when regionMappings[regionVal] is an inherited property,
\* which is truthy and has no map method
\* The field where tells which condition the query carried: none, OR (the
\* synonym list) or region (the direct match).
homeAnswer(rows, region) ==
  IF region = "" THEN [ok |-> TRUE, where |-> "none", selected |-> DOMAIN rows]
  ELSE LET regionVal == regionValOf(region)
           keywords == BracketRead(regionMappings, regionVal)
       IN IF keywords.found /\ ~OwnHas(regionMappings, regionVal)
          THEN [ok |-> FALSE, where |-> "none", selected |-> {}]
          ELSE IF keywords.found
          THEN [ok |-> TRUE, where |-> "OR",
                selected |-> {i \in DOMAIN rows :
                                \E j \in 1..Len(keywords.value) :
                                  containsInsensitive(rows[i], keywords.value[j])}]
          ELSE [ok |-> TRUE, where |-> "region",
                selected |-> {i \in DOMAIN rows : equalsInsensitive(rows[i], regionVal)}]

\* values of the region column
StoredRegions ==
  { Null, Str("MENA"), Str("Middle East"), Str("Europe"), Str("UAE"),
    Str("South America"), Str("South America (Brazil)"), Str("usa") }

\* values of the region search parameter ("" stands for a missing one)
RequestedRegions ==
  { "", "Middle East", "MENA", "Europe", "South America", "Global",
    "constructor" }

HomeInit ==
  /\ \E n \in 0..MaxRows : \E rows \in [1..n -> StoredRegions] :
       home = [rows |-> rows, answers |-> <<>>]

\* one request of the page with a region parameter not requested before
HomeRequest ==
  /\ \E region \in RequestedRegions \ DOMAIN home.answers :
       \E a \in {homeAnswer(home.rows, region)} :
         home' = [home EXCEPT !.answers = @ @@ (region :> a)]
  /\ UNCHANGED notHomeVars

InitHome ==
  MapParked /\ RenderParked /\ HomeInit /\ ApiParked /\ ButtonParked /\ DbParked /\ CardParked /\ FilterParked /\ SidebarParked /\ ListingParked

SpecHome == InitHome /\ [][HomeRequest]_vars

\* the keys of the page's synonym table
SynonymRegions == {regionMappings[i][1] : i \in 1..Len(regionMappings)}

Answered(region) == region \in DOMAIN home.answers

(***************************************************************************)
(* C13: on the same stored rows, a request for region "Middle East"       *)
(* selects exactly the rows a request for "MENA" selects.                  *)
(***************************************************************************)
C13_MiddleEastIsMENA ==
  (Answered("Middle East") /\ Answered("MENA")) =>
    home.answers["Middle East"] = home.answers["MENA"]

\* both requests answered, selecting a row stored as "MENA"
C13_Witness ==
  /\ Answered("Middle East")
  /\ Answered("MENA")
  /\ \E i \in home.answers["Middle East"].selected : home.rows[i] = Str("MENA")

(***************************************************************************)
(* C14: when the requested region has no synonym list, a row is selected  *)
(* if and only if its stored region contains the requested value as a      *)
(* case-insensitive substring.                                             *)
(***************************************************************************)
C14_FallbackIsSubstring ==
  \A region \in DOMAIN home.answers :
    (region # "" /\ regionValOf(region) \notin SynonymRegions) =>
      home.answers[region].selected =
        {i \in DOMAIN home.rows :
           /\ home.rows[i].type = "string"
           /\ includes(toLowerCase(home.rows[i].v), toLowerCase(region))}

(***************************************************************************)
(* C15: the page's synonym table and the map's region centres cover the   *)
(* same regions: a request for a label the map recognises is answered by   *)
(* a synonym list, and every request answered by a synonym list is for a   *)
(* region the map plots at a region centre.                                *)
(***************************************************************************)
C15_SameRegions ==
  \A region \in DOMAIN home.answers :
    /\ regionValOf(region) \in RegionLabels => home.answers[region].where = "OR"
    /\ home.answers[region].where = "OR" => regionCenter(regionValOf(region)).found

(***************************************************************************)
(* Part 4: the refresh status endpoint, GET of                             *)
(* src/src/app/api/refresh/status/route.ts (lines 7-45), against a marker  *)
(* file that an external producer creates, rewrites and removes.  The      *)
(* existence check of line 11 and the read of line 21 are two steps; the   *)
(* producer may act between them.                                          *)
(***************************************************************************)
\* number of GET requests served
MaxRequests == 2
\* number of times the producer changes the marker file
MaxWrites == 2

\* public/refresh_status.json: missing, present but not readable (a read
\* error such as EACCES), or a file with a text
Absent == [kind |-> "absent"]
Unreadable == [kind |-> "unreadable"]
File(text) == [kind |-> "file", data |-> text]

\* no file was read (the request ended at line 12)
NotRead == [kind |-> "notread"]

\* line 11
existsSync(f) == f.kind # "absent"

\* line 21: throws unless the file is there and readable
readFileSync(f) ==
  IF f.kind = "file" THEN [ok |-> TRUE, data |-> f.data] ELSE [ok |-> FALSE]

\* a || b
Or(a, b) == IF Truthy(a) THEN a ELSE b

\* NextResponse.json(object, {status}): the body is the JSON text of the
\* object, which drops the properties whose value is undefined
NextResponseJson(fields, http) ==
  LET names == {fields[i][1] : i \in {j \in DOMAIN fields :
                                        fields[j][2] # Undefined}}
  IN [http |-> http,
      body |-> [n \in names |->
                  fields[CHOOSE i \in DOMAIN fields : fields[i][1] = n][2]]]

\* lines 12-18
idleAnswer ==
  NextResponseJson(<< <<"status", Str("idle")>>,
                      <<"processed", Num(0)>>,
                      <<"total", Num(0)>>,
                      <<"percent_complete", Num(0)>>,
                      <<"message", Str("No active refresh process found.")>> >>,
                   200)

\* lines 36-44, the catch block
failedToRead ==
  NextResponseJson(<< <<"status", Str("error")>>,
                      <<"error", Str("Failed to read status")>>,
                      <<"processed", Num(0)>>,
                      <<"total", Num(0)>>,
                      <<"percent_complete", Num(0)>> >>,
                   500)

\* lines 25-35; json.status on null throws into the catch block
answerFromJson(json) ==
  IF ReadThrows(json) THEN failedToRead
  ELSE NextResponseJson(
         << <<"status", Or(Get(json, "status"), Str("idle"))>>,
            <<"current_competitor", Get(json, "current_competitor")>>,
            <<"processed", Or(Get(json, "processed"), Num(0))>>,
            <<"total", Or(Get(json, "total"), Num(0))>>,
            <<"percent_complete", Or(Get(json, "percent_complete"), Num(0))>>,
            <<"estimated_seconds_remaining",
              Get(json, "estimated_seconds_remaining")>>,
            <<"started_at", Get(json, "started_at")>>,
            <<"completed_at", Get(json, "completed_at")>>,
            <<"error", Get(json, "error")>> >>,
         200)

\* lines 21-44 on the file as it is when line 21 runs
GETread(f) ==
  LET data == readFileSync(f)
  IN IF ~data.ok THEN failedToRead
     ELSE LET json == JSONparse(data.data)
          IN IF ~json.ok THEN failedToRead ELSE answerFromJson(json.value)

\* the handler without the existence check of lines 11-19
GETwithoutExistsCheck(checked, read) == GETread(read)

\* lines 7-45: checked is the file as line 11 sees it, read the file as
\* line 21 sees it
GET(checked, read) ==
  IF ~existsSync(checked) THEN idleAnswer ELSE GETread(read)

\* texts the producer leaves in the marker file: complete statuses, a
\* status with falsy and missing fields, other JSON values, and the empty
\* and the half-written file
RunningText ==
  "{\"status\":\"running\",\"processed\":1,\"total\":4,\"percent_complete\":25}"

CompletedText ==
  "{\"status\":\"completed\",\"processed\":4,\"total\":4,\"percent_complete\":100,\"completed_at\":\"t1\"}"

ErrorText ==
  "{\"status\":\"error\",\"processed\":1,\"total\":4,\"percent_complete\":25,\"error\":\"boom\"}"

MarkerTexts ==
  { RunningText,
    CompletedText,
    ErrorText,
    "{\"status\":\"\",\"processed\":null,\"total\":0}",
    "{}",
    "5",
    "null",
    "",
    "{\"status\":" }

MarkerFiles == {Absent, Unreadable} \cup {File(t) : t \in MarkerTexts}

ApiInit ==
  \E f \in MarkerFiles :
    api = [file |-> f, pc |-> "idle", checked |-> Absent, last |-> <<>>,
           requests |-> 0, writes |-> 0]

\* a request arrives and runs lines 7-19
GETexistsSync ==
  /\ api.pc = "idle"
  /\ api.requests < MaxRequests
  /\ IF existsSync(api.file)
     THEN api' = [api EXCEPT !.pc = "read", !.checked = api.file,
                             !.requests = @ + 1]
     ELSE api' = [api EXCEPT !.requests = @ + 1,
                             !.last = << [checked |-> api.file,
                                          read |-> NotRead,
                                          response |-> GET(api.file, NotRead)] >>]
  /\ UNCHANGED notApiVars

\* the request runs lines 21-44
GETreadFileSync ==
  /\ api.pc = "read"
  /\ api' = [api EXCEPT !.pc = "idle", !.checked = Absent,
                        !.last = << [checked |-> api.checked,
                                     read |-> api.file,
                                     response |-> GET(api.checked, api.file)] >>]
  /\ UNCHANGED notApiVars

\* the external producer creates, rewrites or removes the marker file
ProducerWrites ==
  /\ api.writes < MaxWrites
  /\ \E f \in MarkerFiles \ {api.file} :
       api' = [api EXCEPT !.file = f, !.writes = @ + 1]
  /\ UNCHANGED notApiVars

ApiNext == GETexistsSync \/ GETreadFileSync \/ ProducerWrites

InitStatus ==
  MapParked /\ RenderParked /\ HomeParked /\ ApiInit /\ ButtonParked /\ DbParked /\ CardParked /\ FilterParked /\ SidebarParked /\ ListingParked

SpecStatus == InitStatus /\ [][ApiNext]_vars

\* the four fields every answer carries, with their defaults
StatusFields == {"status", "processed", "total", "percent_complete"}

DefaultOf(field) == IF field = "status" THEN Str("idle") ELSE Num(0)

\* the value the marker text gives a field: undefined when the text is no
\* object or has no such field
FieldInMarker(json, field) ==
  IF json.type = "object" /\ field \in DOMAIN json.props
  THEN json.props[field] ELSE Undefined

\* the last request was answered
Served == Len(api.last) = 1

(***************************************************************************)
(* C16: a GET that finds the marker file absent answers with the idle     *)
(* state (status idle, processed 0, total 0, percent_complete 0) and HTTP  *)
(* 200, not with an error.                                                 *)
(***************************************************************************)
C16_AbsentIsIdle ==
  (Served /\ api.last[1].checked = Absent) =>
     /\ api.last[1].response.http = 200
     /\ \A f \in StatusFields :
          /\ f \in DOMAIN api.last[1].response.body
          /\ api.last[1].response.body[f] = DefaultOf(f)

\* a request answered while the marker file was absent, after the producer
\* removed the file
C16_Witness ==
  /\ Served
  /\ api.last[1].checked = Absent
  /\ api.writes > 0
  /\ api.last[1].response.body.status = Str("idle")

(***************************************************************************)
(* C17: every answer carries status, processed, total and                  *)
(* percent_complete; when the file was read and parsed, a field missing    *)
(* or falsy in the marker file has its default and any other field the     *)
(* file's value, with HTTP 200; when reading or parsing failed the answer  *)
(* is status error with the three numbers 0 and HTTP 500.                  *)
(***************************************************************************)
C17_FieldsAndDefaults ==
  Served =>
    LET e == api.last[1]
        parsed == IF e.read.kind = "file" THEN JSONparse(e.read.data)
                  ELSE SyntaxError
    IN /\ \A f \in StatusFields : f \in DOMAIN e.response.body
       /\ (e.read.kind = "file" /\ parsed.ok) =>
            /\ e.response.http = 200
            /\ \A f \in StatusFields :
                 e.response.body[f] =
                   IF Truthy(FieldInMarker(parsed.value, f))
                   THEN FieldInMarker(parsed.value, f) ELSE DefaultOf(f)
       /\ (e.read # NotRead /\ ~(e.read.kind = "file" /\ parsed.ok)) =>
            /\ e.response.http = 500
            /\ e.response.body.status = Str("error")
            /\ \A f \in StatusFields \ {"status"} :
                 e.response.body[f] = Num(0)

(***************************************************************************)
(* Part 5: DashboardRefreshButton                                          *)
(* (src/src/components/ui/DashboardRefreshButton.tsx), with the requests   *)
(* it has in flight, the server answering them and the external refresh    *)
(* runs writing the marker file.  A state update, the render that follows  *)
(* and the poll effect of lines 25-50 are one step.                        *)
(***************************************************************************)
\* clicks on the button
MaxClicks == 2
\* callbacks of the polling interval
MaxTicks == 2

\* status?.status === s
StatusIs(status, s) ==
  /\ status # Null
  /\ "status" \in DOMAIN status
  /\ status.status = Str(s)

\* lines 63-69
failedToStart ==
  [status |-> Str("error"), processed |-> Num(0), total |-> Num(0),
   percent_complete |-> Num(0), error |-> Str("Failed to start refresh")]

\* lines 25-50, run after a render: the interval of the previous render is
\* cleared and a new one is set exactly when isRefreshing is true
pollEffect(b) == [b EXCEPT !.pollInterval = b.isRefreshing]

\* lines 32-43 that stop on 'completed' only
onPollDataCompletedOnly(b, data) ==
  IF data.status = Str("completed")
  THEN [b EXCEPT !.status = data, !.isRefreshing = FALSE,
                 !.showSuccess = TRUE, !.hideTimers = @ + 1]
  ELSE [b EXCEPT !.status = data]

\* lines 32-43: the callback of the interval once res.json() has resolved
onPollData(b, data) ==
  IF data.status = Str("completed")
  THEN [b EXCEPT !.status = data, !.isRefreshing = FALSE,
                 !.showSuccess = TRUE, !.hideTimers = @ + 1]
  ELSE IF data.status = Str("error")
  THEN [b EXCEPT !.status = data, !.isRefreshing = FALSE]
  ELSE [b EXCEPT !.status = data]

\* lines 60-69: the catch block of handleRefresh
onPostFailed(b) == [b EXCEPT !.isRefreshing = FALSE, !.status = failedToStart]

\* line 40: the callback of the hide timer
onHideTimer(b) == [b EXCEPT !.showSuccess = FALSE]

\* the marker file before the first click: none, or the status an earlier
\* run left behind
ButtonInit ==
  \E f \in {Absent, File(CompletedText)} :
    button = [isRefreshing |-> FALSE, status |-> Null, showSuccess |-> FALSE,
              pollInterval |-> FALSE, hideTimers |-> 0, clicks |-> 0,
              ticks |-> 0, posts |-> <<>>, runs |-> <<>>, polls |-> EmptyBag,
              file |-> f]

\* a status request on its way to the server, and its answer on the way back
Sent == [stage |-> "sent"]
AnsweredWith(data) == [stage |-> "answered", data |-> data]

\* the requests in flight, with one more or one less
With(polls, poll) == polls (+) SetToBag({poll})
Without(polls, poll) == polls (-) SetToBag({poll})

\* lines 52-56: a click on the enabled button (line 77 disables it while
\* isRefreshing); the POST of line 56 leaves
handleRefresh ==
  /\ ~button.isRefreshing
  /\ button.clicks < MaxClicks
  /\ button' = pollEffect([button EXCEPT !.isRefreshing = TRUE,
                                         !.showSuccess = FALSE,
                                         !.clicks = @ + 1,
                                         !.posts = Append(@, "sent"),
                                         !.runs = Append(@, "requested")])
  /\ UNCHANGED notButtonVars

\* the server receives the POST of click k and starts the refresh run
RefreshAccepted ==
  /\ \E k \in DOMAIN button.posts :
       /\ button.posts[k] = "sent"
       /\ button' = [button EXCEPT !.posts[k] = "ok", !.runs[k] = "running"]
  /\ UNCHANGED notButtonVars

\* the server receives the POST of click k and answers with an error status
RefreshRejected ==
  /\ \E k \in DOMAIN button.posts :
       /\ button.posts[k] = "sent"
       /\ button' = [button EXCEPT !.posts[k] = "failed",
                                   !.runs[k] = "rejected"]
  /\ UNCHANGED notButtonVars

\* lines 56-59 with res.ok: handleRefresh ends without a state update
PostResolves ==
  /\ \E k \in DOMAIN button.posts :
       /\ button.posts[k] = "ok"
       /\ button' = [button EXCEPT !.posts[k] = "resolved"]
  /\ UNCHANGED notButtonVars

\* lines 57-69: fetch rejects (the request or its answer is lost) or the
\* answer is not ok
PostFails ==
  /\ \E k \in DOMAIN button.posts :
       /\ button.posts[k] \in {"sent", "ok", "failed"}
       /\ button' = pollEffect(
            [onPostFailed(button) EXCEPT
               !.posts[k] = "caught",
               !.runs[k] = IF button.posts[k] = "sent" THEN "rejected" ELSE @])
  /\ UNCHANGED notButtonVars

\* the refresh run of click k writes its status into the marker file
RunWrites ==
  /\ \E k \in DOMAIN button.runs :
       /\ button.runs[k] = "running"
       /\ \E w \in {<<RunningText, "running">>, <<CompletedText, "completed">>,
                    <<ErrorText, "error">>} :
            button' = [button EXCEPT !.file = File(w[1]), !.runs[k] = w[2]]
  /\ UNCHANGED notButtonVars

\* lines 28-30: the interval fires and the status request leaves
Tick ==
  /\ button.pollInterval
  /\ button.ticks < MaxTicks
  /\ button' = [button EXCEPT !.ticks = @ + 1, !.polls = With(@, Sent)]
  /\ UNCHANGED notButtonVars

\* the status endpoint answers a poll from the marker file
ServeStatus ==
  /\ BagIn(Sent, button.polls)
  /\ button' = [button EXCEPT
                  !.polls = With(Without(@, Sent),
                                 AnsweredWith(GET(button.file, button.file).body))]
  /\ UNCHANGED notButtonVars

\* lines 31-43: the answer of a poll arrives
PollDelivered ==
  /\ \E poll \in BagToSet(button.polls) :
       /\ poll.stage = "answered"
       /\ button' = pollEffect(
            [onPollData(button, poll.data) EXCEPT
               !.polls = Without(@, poll)])
  /\ UNCHANGED notButtonVars

\* lines 44-46: fetch or res.json() of a poll throws; the endpoint has no
\* side effect, so a lost answer is a lost request
PollThrows ==
  /\ BagIn(Sent, button.polls)
  /\ button' = [button EXCEPT !.polls = Without(@, Sent)]
  /\ UNCHANGED notButtonVars

\* line 40: a hide timer set by a 'completed' answer fires
HideTimerFires ==
  /\ button.hideTimers > 0
  /\ button' = [onHideTimer(button) EXCEPT !.hideTimers = @ - 1]
  /\ UNCHANGED notButtonVars

ButtonNext ==
  \/ handleRefresh
  \/ RefreshAccepted
  \/ RefreshRejected
  \/ PostResolves
  \/ PostFails
  \/ RunWrites
  \/ Tick
  \/ ServeStatus
  \/ PollDelivered
  \/ PollThrows
  \/ HideTimerFires

InitRefresh ==
  MapParked /\ RenderParked /\ HomeParked /\ ApiParked /\ ButtonInit /\ DbParked /\ CardParked /\ FilterParked /\ SidebarParked /\ ListingParked

SpecRefresh == InitRefresh /\ [][ButtonNext]_vars

\* the step delivers the failure of a start POST to handleRefresh
PostFailureArrives ==
  \E k \in DOMAIN button.posts :
    button.posts[k] # "caught" /\ button'.posts[k] = "caught"

\* the step delivers a poll answer whose status is s
PollAnswerArrives(s) ==
  \E poll \in BagToSet(button.polls) :
    /\ poll.stage = "answered"
    /\ poll.data.status = Str(s)
    /\ CopiesIn(poll, button'.polls) < CopiesIn(poll, button.polls)

\* the step is a poll whose fetch throws
PollFetchThrows ==
  /\ CopiesIn(Sent, button'.polls) < CopiesIn(Sent, button.polls)
  /\ BagCardinality(button'.polls) < BagCardinality(button.polls)

\* the success message and the error message of lines 112 and 120
SuccessShown == button.showSuccess

ErrorShown == StatusIs(button.status, "error") /\ ~button.isRefreshing

(***************************************************************************)
(* C18: a step that delivers the failure of the start POST, or a poll      *)
(* answer with status completed or error, leaves isRefreshing false and    *)
(* the polling interval cleared; any other step but a click, a throwing    *)
(* poll included, leaves isRefreshing and the interval as they are; polls  *)
(* are issued only while isRefreshing is true, and the button is clicked   *)
(* only while it is false.                                                 *)
(***************************************************************************)
C18_RefreshingUntilEndOrFailure ==
  [][ LET stop == \/ PostFailureArrives
                  \/ PollAnswerArrives("completed")
                  \/ PollAnswerArrives("error")
      IN /\ stop => (~button'.isRefreshing /\ ~button'.pollInterval)
         /\ (~stop /\ button'.clicks = button.clicks) =>
              /\ button'.isRefreshing = button.isRefreshing
              /\ button'.pollInterval = button.pollInterval
         /\ PollFetchThrows => (button'.pollInterval = button.pollInterval)
         /\ button'.ticks > button.ticks => button.isRefreshing
         /\ button'.clicks > button.clicks =>
              (~button.isRefreshing /\ button'.isRefreshing)
         /\ button'.pollInterval = button'.isRefreshing
    ]_vars

\* a 'completed' answer stopped the first refresh; the second one, started
\* by a POST that succeeded, is still polling after its poll was lost
C18_Witness ==
  /\ button.clicks = 2
  /\ button.posts = <<"resolved", "resolved">>
  /\ StatusIs(button.status, "completed")
  /\ button.ticks = MaxTicks
  /\ button.polls = EmptyBag
  /\ button.isRefreshing
  /\ button.pollInterval

(***************************************************************************)
(* C19: the success message is shown only when the refresh run started by *)
(* the latest click has completed.                                         *)
(***************************************************************************)
C19_SuccessIsForThisRun ==
  SuccessShown =>
    /\ button.clicks > 0
    /\ button.runs[button.clicks] = "completed"

(***************************************************************************)
(* C20: the success message and the error message are never displayed at  *)
(* the same time.                                                          *)
(***************************************************************************)
C20_NeverBothMessages == ~(SuccessShown /\ ErrorShown)

(***************************************************************************)
(* Part 6: PATCH /api/news/[id]                                            *)
(* (src/src/app/api/refresh/status/route.ts, lines 70-91) on the           *)
(* CompetitorNews table of src/prisma/migrations/0_init/migration.sql.     *)
(***************************************************************************)
\* number of PATCH requests served
MaxPatches == 2

\* primary keys of the stored news items, and an id no item has
NewsIds == {"n1", "n2"}
UnknownId == "n9"

\* the columns of CompetitorNews the model keeps: the two flags (BOOLEAN
\* NOT NULL) and one of the other columns
NewsRows == [isRead : BOOLEAN, isStarred : BOOLEAN, title : {"t"}]

\* the columns body fields can reach
PatchFields == {"isRead", "isStarred"}

\* lines 78-80 that write both fields, false for an absent one
updateDataBothFields(body) ==
  [f \in PatchFields |->
     IF Get(body, f) = Undefined THEN Bool(FALSE) ELSE Get(body, f)]

\* lines 76-80: the fields of the body that are not undefined
updateData(body) ==
  [f \in {g \in PatchFields : Get(body, g) # Undefined} |-> Get(body, f)]

\* lines 82-85, prisma.competitorNews.update: throws when no row has the
\* id or a value is no boolean (null included, the columns are NOT NULL)
prismaUpdate(store, id, data) ==
  IF id \notin DOMAIN store \/ \E f \in DOMAIN data : data[f].type # "boolean"
  THEN [ok |-> FALSE]
  ELSE [ok |-> TRUE,
        store |-> [store EXCEPT ![id] =
                     [c \in DOMAIN store[id] |->
                        IF c \in DOMAIN data THEN data[c].v ELSE store[id][c]]]]

\* lines 88-90
failedToUpdate ==
  [http |-> 500, body |-> [error |-> "Failed to update news item"]]

\* lines 70-91: the store and the answer after a PATCH with this body text;
\* request.json() throws on text that is no JSON, line 76 on null
PATCH(store, id, text) ==
  LET json == JSONparse(text)
  IN IF ~json.ok \/ ReadThrows(json.value)
     THEN [store |-> store, response |-> failedToUpdate]
     ELSE LET updated == prismaUpdate(store, id, updateData(json.value))
          IN IF ~updated.ok
             THEN [store |-> store, response |-> failedToUpdate]
             ELSE [store |-> updated.store,
                   response |-> [http |-> 200, body |-> updated.store[id]]]

\* request bodies: the ones NewsCard sends, and others a client can send
PatchBodies ==
  { "{\"isStarred\":true}", "{\"isStarred\":false}", "{\"isRead\":true}",
    "{\"isRead\":false,\"isStarred\":true}", "{}", "5", "null", "",
    "{\"isStarred\":null}", "{\"isRead\":true,\"isStarred\":\"yes\"}",
    "{\"title\":\"x\",\"isStarred\":true}" }

DbInit ==
  \E store \in [NewsIds -> NewsRows] :
    db = [store |-> store, requests |-> 0, last |-> <<>>]

\* one PATCH request, served from line 70 to line 91
DbPatch ==
  /\ db.requests < MaxPatches
  /\ \E id \in NewsIds \cup {UnknownId}, text \in PatchBodies :
       \E r \in {PATCH(db.store, id, text)} :
         db' = [store |-> r.store, requests |-> db.requests + 1,
                last |-> << [id |-> id, text |-> text, before |-> db.store,
                             response |-> r.response] >>]
  /\ UNCHANGED notDbVars

InitPatch ==
  MapParked /\ RenderParked /\ HomeParked /\ ApiParked /\ ButtonParked /\ DbInit
    /\ CardParked /\ FilterParked /\ SidebarParked /\ ListingParked

SpecPatch == InitPatch /\ [][DbPatch]_vars

\* the value the request body gives a field: undefined when the body is no
\* object or has no such field
FieldInBody(text, field) ==
  LET json == JSONparse(text)
  IN IF json.ok /\ json.value.type = "object" /\ field \in DOMAIN json.value.props
     THEN json.value.props[field] ELSE Undefined

(***************************************************************************)
(* C23: a PATCH that succeeds changes, in the addressed item only, those   *)
(* of isRead and isStarred that the body carries, to the body's value; a   *)
(* field absent from the body, every other column and every other item     *)
(* keep their values; a PATCH that fails (unknown id among others) leaves  *)
(* the store unchanged and answers the 500 error.                          *)
(***************************************************************************)
C23_PatchFrame ==
  Len(db.last) = 1 =>
    LET e == db.last[1]
    IN /\ DOMAIN db.store = DOMAIN e.before
       /\ \A id \in DOMAIN db.store \ {e.id} : db.store[id] = e.before[id]
       /\ e.response.http \in {200, 500}
       /\ e.id \notin DOMAIN e.before => e.response.http = 500
       /\ e.response.http = 500 =>
            /\ db.store = e.before
            /\ e.response.body = [error |-> "Failed to update news item"]
       /\ e.response.http = 200 =>
            /\ db.store[e.id].title = e.before[e.id].title
            /\ \A f \in PatchFields :
                 db.store[e.id][f] =
                   IF FieldInBody(e.text, f) = Undefined
                   THEN e.before[e.id][f]
                   ELSE FieldInBody(e.text, f).v

\* a PATCH carrying isStarred only has starred an item that was read, and
\* the item is still read
C23_Witness ==
  /\ Len(db.last) = 1
  /\ db.last[1].text = "{\"isStarred\":true}"
  /\ db.last[1].response.http = 200
  /\ db.last[1].before[db.last[1].id] =
       [isRead |-> TRUE, isStarred |-> FALSE, title |-> "t"]
  /\ db.store[db.last[1].id] =
       [isRead |-> TRUE, isStarred |-> TRUE, title |-> "t"]

(***************************************************************************)
(* Part 7: NewsCard (src/src/components/ui/NewsCard.tsx, lines 9-44) with  *)
(* its PATCH requests in flight and the server that answers them.          *)
(***************************************************************************)
\* clicks on the star
MaxToggles == 2

\* the id of the item the card shows
CardItem == "n1"

\* JSON.stringify of lines 21 and 38
StarBody(newState) ==
  IF newState THEN "{\"isStarred\":true}" ELSE "{\"isStarred\":false}"

ReadBody == "{\"isRead\":true}"

\* a PATCH on its way to the server: newState is the constant of line 31
\* the handler closed over
PatchSent(kind, newState) == [stage |-> "sent", kind |-> kind, newState |-> newState]

\* lines 40-43: the catch block of toggleStar
onStarRejected(c, patch) == [c EXCEPT !.isStarred = ~patch.newState]

\* lines 10-12: the card is mounted with the stored flags of its item
CardInit ==
  \E row \in NewsRows :
    card = [isRead |-> row.isRead, isStarred |-> row.isStarred, toggles |-> 0,
            patches |-> EmptyBag, store |-> (CardItem :> row)]

\* lines 14-22: the card is opened while unread
handleRead ==
  /\ ~card.isRead
  /\ card' = [card EXCEPT !.isRead = TRUE,
                          !.patches = With(@, PatchSent("read", TRUE))]
  /\ UNCHANGED notCardVars

\* lines 28-39: a click on the star
toggleStar ==
  /\ card.toggles < MaxToggles
  /\ card' = [card EXCEPT !.isStarred = ~card.isStarred,
                          !.toggles = @ + 1,
                          !.patches = With(@, PatchSent("star", ~card.isStarred))]
  /\ UNCHANGED notCardVars

\* the server runs PATCH for a request that arrived
ServePatch ==
  /\ \E patch \in BagToSet(card.patches) :
       /\ patch.stage = "sent"
       /\ \E r \in {PATCH(card.store, CardItem,
                          IF patch.kind = "star" THEN StarBody(patch.newState)
                          ELSE ReadBody)} :
            card' = [card EXCEPT
                       !.store = r.store,
                       !.patches = With(Without(@, patch),
                                        [patch EXCEPT !.stage = "answered"]
                                          @@ [http |-> r.response.http])]
  /\ UNCHANGED notCardVars

\* the answer of the server is lost on its way back
AnswerLost ==
  /\ \E patch \in BagToSet(card.patches) :
       /\ patch.stage = "answered"
       /\ card' = [card EXCEPT
                     !.patches = With(Without(@, patch),
                                      [patch EXCEPT !.stage = "lost"])]
  /\ UNCHANGED notCardVars

\* the competitor of the item is deleted, and with it the item (ON DELETE
\* CASCADE, migration.sql line 54)
ItemDeleted ==
  /\ CardItem \in DOMAIN card.store
  /\ card' = [card EXCEPT !.store = <<>>]
  /\ UNCHANGED notCardVars

\* fetch resolves: the await of line 18 or 35 returns, whatever the status
PatchResolves ==
  /\ \E patch \in BagToSet(card.patches) :
       /\ patch.stage = "answered"
       /\ card' = [card EXCEPT !.patches = Without(@, patch)]
  /\ UNCHANGED notCardVars

\* fetch rejects (the request or its answer was lost): lines 23-25, 40-43
PatchRejects ==
  /\ \E patch \in BagToSet(card.patches) :
       /\ patch.stage \in {"sent", "lost"}
       /\ card' = [(IF patch.kind = "star" THEN onStarRejected(card, patch)
                    ELSE card)
                   EXCEPT !.patches = Without(@, patch)]
  /\ UNCHANGED notCardVars

CardNext ==
  \/ handleRead
  \/ toggleStar
  \/ ServePatch
  \/ AnswerLost
  \/ ItemDeleted
  \/ PatchResolves
  \/ PatchRejects

InitCard ==
  MapParked /\ RenderParked /\ HomeParked /\ ApiParked /\ ButtonParked
    /\ DbParked /\ CardInit /\ FilterParked /\ SidebarParked /\ ListingParked

SpecCard == InitCard /\ [][CardNext]_vars

\* the step hands the outcome of this PATCH to the handler that sent it
Settles(patch) ==
  /\ CopiesIn(patch, card'.patches) < CopiesIn(patch, card.patches)
  /\ BagCardinality(card'.patches) < BagCardinality(card.patches)

\* the request was rejected, or the server answered with an error status
PatchFailed(patch) ==
  \/ patch.stage \in {"sent", "lost"}
  \/ patch.stage = "answered" /\ patch.http # 200

(***************************************************************************)
(* C21: when the PATCH of a star toggle fails (fetch rejects, or the       *)
(* server answers with an error status), the step that settles it leaves   *)
(* the card's starred state at the value it had before that toggle.        *)
(***************************************************************************)
C21_RevertOnFailure ==
  [][ \A patch \in BagToSet(card.patches) :
        (patch.kind = "star" /\ PatchFailed(patch) /\ Settles(patch)) =>
           card'.isStarred = ~patch.newState
    ]_vars

(***************************************************************************)
(* C22: once the star was toggled and every PATCH has settled, the card's  *)
(* starred state equals the isStarred value stored for the item.           *)
(***************************************************************************)
C22_CardMatchesStore ==
  (/\ card.toggles > 0
   /\ card.patches = EmptyBag
   /\ CardItem \in DOMAIN card.store) =>
     card.isStarred = card.store[CardItem].isStarred

(***************************************************************************)
(* Part 8: ThreatFilter (src/src/components/ThreatFilter.tsx).  The prop   *)
(* currentLevel is the minThreat of the URL the page was rendered for; a   *)
(* router.push takes effect when its navigation commits.  A state update,  *)
(* the render and the effects that follow are one step.                    *)
(***************************************************************************)
\* largest level of the slider (line 44 has 5)
MaxLevel == 3
\* slider movements
MaxSlides == 2
\* navigations that do not come from the slider (back button, direct link)
MaxExternals == 1
\* navigations pushed and not yet committed
MaxPending == 2

\* lines 44-46
Levels == 1..MaxLevel

\* lines 19-25, after a render with a new localLevel: the timer of the
\* previous render is cleared and one is set for this localLevel
debounceEffect(f) == [f EXCEPT !.timer = f.localLevel]

\* lines 28-34, after a render with a new debouncedLevel or currentLevel; a
\* push is logged with the levels of the render it happened in
navigationEffect(f) ==
  IF f.debouncedLevel # f.currentLevel
  THEN [f EXCEPT !.pending = Append(@, f.debouncedLevel),
                 !.pushes = @ \cup {[v |-> f.debouncedLevel,
                                     currentLevel |-> f.currentLevel,
                                     localLevel |-> f.localLevel,
                                     rested |-> f.debouncedLevel \in f.rested,
                                     slid |-> f.slides > 0]}]
  ELSE f

\* lines 14-16, after a render with a new currentLevel, and the render its
\* setLocalLevel causes
syncEffect(f) ==
  IF f.localLevel # f.currentLevel
  THEN debounceEffect([f EXCEPT !.localLevel = f.currentLevel])
  ELSE f

\* the render with the new prop: line 29 still sees the localLevel of before
onCurrentLevel(f, level) ==
  syncEffect(navigationEffect([f EXCEPT !.currentLevel = level]))

\* lines 10-11 and the effects of the mount: the debounce timer is running
FilterInit ==
  \E level \in Levels :
    filter = [currentLevel |-> level, localLevel |-> level,
              debouncedLevel |-> level, timer |-> level, pending |-> <<>>,
              rested |-> {}, pushes |-> {}, slides |-> 0, externals |-> 0]

\* line 47: the slider is moved
onValueChange ==
  /\ filter.slides < MaxSlides
  /\ \E level \in Levels \ {filter.localLevel} :
       filter' = debounceEffect([filter EXCEPT !.localLevel = level,
                                               !.slides = @ + 1])
  /\ UNCHANGED notFilterVars

\* lines 20-22: 500 ms have passed since the timer was set
TimerFires ==
  /\ filter.timer # 0
  /\ Len(filter.pending) < MaxPending
  /\ \E f \in {[filter EXCEPT !.debouncedLevel = filter.timer,
                              !.timer = 0,
                              !.rested = @ \cup {filter.timer}]} :
       filter' = IF f.debouncedLevel # filter.debouncedLevel
                 THEN navigationEffect(f) ELSE f
  /\ UNCHANGED notFilterVars

\* the navigation of a router.push (line 32) commits: the page is rendered
\* for the new URL and hands its minThreat down
NavigationCommits ==
  /\ filter.pending # <<>>
  /\ filter' = onCurrentLevel([filter EXCEPT !.pending = Tail(@)],
                              Head(filter.pending))
  /\ UNCHANGED notFilterVars

\* the URL changes without the slider: back button, refresh, direct link
ExternalNavigation ==
  /\ filter.externals < MaxExternals
  /\ Len(filter.pending) < MaxPending
  /\ \E level \in Levels \ {filter.currentLevel} :
       filter' = onCurrentLevel([filter EXCEPT !.externals = @ + 1], level)
  /\ UNCHANGED notFilterVars

FilterNext ==
  \/ onValueChange
  \/ TimerFires
  \/ NavigationCommits
  \/ ExternalNavigation

InitFilter ==
  MapParked /\ RenderParked /\ HomeParked /\ ApiParked /\ ButtonParked
    /\ DbParked /\ CardParked /\ FilterInit /\ SidebarParked /\ ListingParked

SpecFilter == InitFilter /\ [][FilterNext]_vars

(***************************************************************************)
(* C24: every navigation ThreatFilter pushes carries a level whose         *)
(* debounce timer ran out (the slider rested there for 500 ms), and is     *)
(* pushed in a render whose debounced level differs from currentLevel; a   *)
(* pending timer always belongs to the level the slider shows.             *)
(***************************************************************************)
C24_OnlyRestedLevelsPushed ==
  /\ \A p \in filter.pushes : p.rested /\ p.v # p.currentLevel
  /\ filter.timer # 0 => filter.timer = filter.localLevel

(***************************************************************************)
(* C25: as long as the slider was never moved, the local level is the      *)
(* currentLevel prop after every change of the prop, and no navigation is  *)
(* pushed.                                                                 *)
(***************************************************************************)
C25_AdoptsPropWithoutPush ==
  /\ filter.slides = 0 => filter.localLevel = filter.currentLevel
  /\ \A p \in filter.pushes : p.slid

(***************************************************************************)
(* Part 9: the Sidebar (src/unnamed/part_000, lines 151-330): its filter   *)
(* state, the URL it reads through useSearchParams, the effect that copies *)
(* the URL into the state (lines 169-187) and the effect that applies the  *)
(* state to the URL (lines 204-234).  A state update, the render and the   *)
(* effects that follow it are one step; a pushed navigation commits in a   *)
(* later step, in the order of the pushes.                                 *)
(***************************************************************************)
MaxChanges == 2
MaxUrlChanges == 1

\* parseInt gave no number
NaN == [type |-> "NaN"]

\* URLSearchParams is a list of name/value pairs; get reads the first pair
\* of a name
paramGet(u, k) ==
  IF \E i \in 1..Len(u) : u[i][1] = k
  THEN Str(u[CHOOSE i \in 1..Len(u) :
               u[i][1] = k /\ \A j \in 1..(i - 1) : u[j][1] # k][2])
  ELSE Null

\* URLSearchParams.delete removes every pair of the name
paramDelete(u, k) == SelectSeq(u, LAMBDA p : p[1] # k)

\* URLSearchParams.set overwrites the first pair of the name and removes
\* the others, or appends a pair
paramSet(u, k, v) ==
  IF paramGet(u, k) = Null
  THEN Append(u, <<k, v>>)
  ELSE LET first == CHOOSE i \in 1..Len(u) :
                      u[i][1] = k /\ \A j \in 1..(i - 1) : u[j][1] # k
       IN SubSeq(u, 1, first - 1) \o <<<<k, v>>>>
            \o paramDelete(SubSeq(u, first + 1, Len(u)), k)

\* URLSearchParams.toString for names and values without reserved
\* characters
RECURSIVE paramsToString(_)
paramsToString(u) ==
  IF u = <<>> THEN ""
  ELSE u[1][1] \o "=" \o u[1][2]
         \o (IF Len(u) = 1 THEN "" ELSE "&" \o paramsToString(Tail(u)))

\* parseInt on the texts of the model
parseInt(v) ==
  CASE v.v = "1" -> Num(1)
    [] v.v = "2" -> Num(2)
    [] OTHER -> NaN

\* the five values read from the URL, lines 160-164 and 171-184
fromSearchParams(u) ==
  [selectedCompetitor |-> paramGet(u, "competitorId"),
   minThreat |-> parseInt(Or(paramGet(u, "minThreat"), Str("1"))),
   unreadOnly |-> paramGet(u, "unread") = Str("true"),
   starredOnly |-> paramGet(u, "starred") = Str("true"),
   selectedRegion |-> paramGet(u, "region")]

\* lines 169-187: every value that differs from the URL is set from it
\* (NaN !== NaN, so a minThreat that is no number is set again each time)
urlSyncEffect(s) ==
  [s EXCEPT !.selectedCompetitor = paramGet(s.url, "competitorId"),
            !.minThreat =
               parseInt(Or(paramGet(s.url, "minThreat"), Str("1"))),
            !.selectedRegion = paramGet(s.url, "region"),
            !.unreadOnly = paramGet(s.url, "unread") = Str("true"),
            !.starredOnly = paramGet(s.url, "starred") = Str("true")]

\* whether the URL sync effect set a value (synced is the state it leaves),
\* which renders again and runs the auto-apply effect
syncRenders(s, synced) == synced # s \/ synced.minThreat = NaN

\* the element of a one-element set (binds a value that is used often)
The(S) == CHOOSE x \in S : TRUE

\* lines 205-221: the parameters of the URL with the four filters set or
\* deleted
filterParams(s) ==
  The({ IF s.starredOnly THEN paramSet(p3, "starred", "true")
        ELSE paramDelete(p3, "starred") :
        p3 \in { IF s.unreadOnly THEN paramSet(p2, "unread", "true")
                 ELSE paramDelete(p2, "unread") :
          p2 \in { IF Truthy(s.selectedRegion)
                   THEN paramSet(p1, "region", s.selectedRegion.v)
                   ELSE paramDelete(p1, "region") :
            p1 \in { IF Truthy(s.selectedCompetitor)
                     THEN paramSet(s.url, "competitorId",
                                   s.selectedCompetitor.v)
                     ELSE paramDelete(s.url, "competitorId") } } } })

\* lines 204-226, with the test of line 223 left out
applyFiltersAlwaysPush(s) ==
  The({ [s EXCEPT !.pending = Append(@, params)] :
        params \in {filterParams(s)} })

\* lines 204-226 (run by the auto-apply effect, lines 229-234)
applyFilters(s) ==
  The({ IF paramsToString(params) # paramsToString(s.url)
        THEN [s EXCEPT !.pending = Append(@, params)]
        ELSE s :
        params \in {filterParams(s)} })

\* a render with new searchParams: the sync effect runs, and if it set a
\* value the next render runs the auto-apply effect
onSearchParams(s, u) ==
  The({ The({ IF syncRenders(t, synced) THEN applyFilters(synced) ELSE t :
              synced \in {urlSyncEffect(t)} }) :
        t \in {[s EXCEPT !.url = u]} })

\* the URLs the Sidebar is mounted on or taken to by other navigations
SidebarUrls ==
  { <<>>,
    << <<"minThreat", "2">>, <<"competitorId", "">>, <<"unread", "false">> >>,
    << <<"minThreat", "x">>, <<"region", "Europe">>, <<"region", "APAC">>,
       <<"starred", "true">> >> }

\* the values of the region select, lines 284-289, and the listed
\* competitors
RegionOptions == {Null, Str("Europe"), Str("APAC")}
CompetitorIds == {"c1"}

\* mount: the state is read from the URL (lines 160-164), both effects run,
\* and a minThreat that is no number renders once more
mount(u) ==
  LET s0 == [url |-> u, pending |-> <<>>, changes |-> 0, urlChanges |-> 0]
             @@ fromSearchParams(u)
      s1 == applyFilters(s0)
  IN IF s0.minThreat = NaN THEN applyFilters(s1) ELSE s1

SidebarInit == \E u \in SidebarUrls : sidebar = mount(u)

\* line 268 or 272: a Switch is flipped
onCheckedChange ==
  /\ sidebar.changes < MaxChanges
  /\ \E k \in {"unreadOnly", "starredOnly"} :
       sidebar' = applyFilters([sidebar EXCEPT ![k] = ~@, !.changes = @ + 1])
  /\ UNCHANGED notSidebarVars

\* line 282: a region is chosen
onRegionChange ==
  /\ sidebar.changes < MaxChanges
  /\ \E r \in RegionOptions \ {sidebar.selectedRegion} :
       sidebar' = applyFilters([sidebar EXCEPT !.selectedRegion = r,
                                               !.changes = @ + 1])
  /\ UNCHANGED notSidebarVars

\* lines 318-330: "All Competitors" or a competitor is clicked
onCompetitorClick ==
  /\ sidebar.changes < MaxChanges
  /\ \E c \in {Null} \cup {Str(id) : id \in CompetitorIds} :
       \E new \in {IF c = sidebar.selectedCompetitor THEN Null ELSE c} :
         /\ new # sidebar.selectedCompetitor
         /\ sidebar' = applyFilters([sidebar EXCEPT !.selectedCompetitor = new,
                                                    !.changes = @ + 1])
  /\ UNCHANGED notSidebarVars

\* the oldest pushed navigation commits: useSearchParams gives its
\* parameters
PushCommits ==
  /\ sidebar.pending # <<>>
  /\ sidebar' = onSearchParams([sidebar EXCEPT !.pending = Tail(@)],
                               Head(sidebar.pending))
  /\ UNCHANGED notSidebarVars

\* the URL changes without the Sidebar: back button, link, another
\* component's push
UrlChanges ==
  /\ sidebar.urlChanges < MaxUrlChanges
  /\ \E u \in SidebarUrls \ {sidebar.url} :
       sidebar' = onSearchParams([sidebar EXCEPT !.urlChanges = @ + 1], u)
  /\ UNCHANGED notSidebarVars

SidebarNext ==
  \/ onCheckedChange
  \/ onRegionChange
  \/ onCompetitorClick
  \/ PushCommits
  \/ UrlChanges

InitSidebar ==
  MapParked /\ RenderParked /\ HomeParked /\ ApiParked /\ ButtonParked
    /\ DbParked /\ CardParked /\ FilterParked /\ SidebarInit /\ ListingParked

SpecSidebar == InitSidebar /\ [][SidebarNext]_vars

\* a pushed navigation commits in the end
SpecSidebarFair == SpecSidebar /\ WF_vars(PushCommits)

\* no navigation is on its way and the four parameters say what the state
\* says
SidebarSettled ==
  /\ sidebar.pending = <<>>
  /\ paramGet(sidebar.url, "competitorId") = sidebar.selectedCompetitor
  /\ paramGet(sidebar.url, "region") = sidebar.selectedRegion
  /\ (paramGet(sidebar.url, "unread") # Null) = sidebar.unreadOnly
  /\ (paramGet(sidebar.url, "starred") # Null) = sidebar.starredOnly

\* a step that pushes a navigation pushes a query string other than the one
\* of the URL it was computed from
Pushed ==
  /\ sidebar'.pending # sidebar.pending
  /\ sidebar.pending # <<>> => sidebar'.pending # Tail(sidebar.pending)

PushesOnlyADifferentQuery ==
  Pushed => paramsToString(sidebar'.pending[Len(sidebar'.pending)])
              # paramsToString(sidebar'.url)

(***************************************************************************)
(* C26: the sync between the Sidebar's state and the URL cannot loop: a    *)
(* navigation is pushed only with a query string that differs from the     *)
(* current one, and after finitely many filter changes and URL changes the *)
(* Sidebar stays in a state with no navigation on its way in which         *)
(* competitorId, region, unread and starred of the URL equal its state.    *)
(***************************************************************************)
C26_SyncSettles ==
  /\ [][PushesOnlyADifferentQuery]_vars
  /\ <>[]SidebarSettled

\* settled after filter changes and a URL change, on a URL the Sidebar pushed
C26_Witness ==
  /\ SidebarSettled
  /\ sidebar.changes = MaxChanges
  /\ sidebar.urlChanges >= 1
  /\ sidebar.url \notin SidebarUrls

(***************************************************************************)
(* Part 10: the region match of the Sidebar's competitor list              *)
(* (src/unnamed/part_000, lines 240-257) beside the region match of the    *)
(* page's news query (lines 30-51, homeAnswer above), on the same region   *)
(* strings and the same selected region: the Sidebar writes its selected   *)
(* region into the region parameter that the page reads.                   *)
(***************************************************************************)
MaxCompetitors == 2

\* lines 243-254: matchesRegion for a region column and a selected region
matchesRegion(region, selectedRegion) ==
  IF ~Truthy(selectedRegion) THEN TRUE
  ELSE LET r == toLowerCase(Or(region, Str("")).v)
           s == toLowerCase(selectedRegion.v)
       IN CASE s = "north america" ->
                 includes(r, "usa") \/ includes(r, "canada")
                   \/ includes(r, "america")
            [] s = "europe" ->
                 includes(r, "europe") \/ includes(r, "uk")
                   \/ includes(r, "germany") \/ includes(r, "france")
            [] s = "apac" ->
                 includes(r, "asia") \/ includes(r, "china")
                   \/ includes(r, "japan") \/ includes(r, "australia")
            [] s = "middle east" ->
                 includes(r, "middle east") \/ includes(r, "uae")
                   \/ includes(r, "saudi") \/ includes(r, "qatar")
            [] OTHER -> includes(r, s)

\* lines 240-257 with an empty search term: the listed competitors
filteredCompetitors(regions, selectedRegion) ==
  {i \in DOMAIN regions : matchesRegion(regions[i], selectedRegion)}

\* the region parameter the Sidebar writes for a selected region, lines
\* 210-211, as the page reads it
regionParam(selectedRegion) ==
  IF Truthy(selectedRegion) THEN selectedRegion.v ELSE ""

\* the values of the region select, lines 284-289
SelectableRegions ==
  { Str("North America"), Str("Europe"), Str("Middle East"), Str("APAC"),
    Str("Global") }

\* the region strings are those of the stored rows; nothing is selected
ListingInit ==
  \E n \in 0..MaxCompetitors : \E regions \in [1..n -> StoredRegions] :
    listing = [regions |-> regions, selectedRegion |-> Null,
               filteredCompetitors |-> filteredCompetitors(regions, Null),
               news |-> homeAnswer(regions, "").selected]

\* line 282: a region or "All Regions" is chosen; the list is filtered and
\* the page answers the query for the region
SelectRegion ==
  /\ \E selected \in (SelectableRegions \cup {Null}) \ {listing.selectedRegion} :
       listing' =
         [listing EXCEPT
            !.selectedRegion = selected,
            !.filteredCompetitors = filteredCompetitors(listing.regions, selected),
            !.news = homeAnswer(listing.regions, regionParam(selected)).selected]
  /\ UNCHANGED notListingVars

InitListing ==
  MapParked /\ RenderParked /\ HomeParked /\ ApiParked /\ ButtonParked
    /\ DbParked /\ CardParked /\ FilterParked /\ SidebarParked /\ ListingInit

SpecListing == InitListing /\ [][SelectRegion]_vars

(***************************************************************************)
(* C27: for every selectable broad region and every stored region string,  *)
(* the Sidebar's match and the page's match accept the same strings.       *)
(***************************************************************************)
C27_SameRegionMatch ==
  listing.selectedRegion \in SelectableRegions =>
    listing.filteredCompetitors = listing.news

(***************************************************************************)
(* Part 11: the aggregation of SurveillanceMap recomputed for the same     *)
(* items in another order.  The memo of lines 98-171 depends on [news]:    *)
(* when the page hands over an array with the items in another order, the  *)
(* aggregation runs again from fresh locals.                               *)
(***************************************************************************)
\* items that share a bucket with different threat levels, that name one
\* city in two spellings, cities and countries, an inherited property, no
\* place at all, and details that make the callback throw
OrderItems ==
  {Item(Str("Europe"), Undefined, t) : t \in ThreatLevels}
    \cup {Item(Str("Europe"), Str(d), 2) :
            d \in {"{\"location\":\"Tokyo, Japan\"}",
                   "{\"location\":\" tokyo, JAPAN \"}",
                   "{\"location\":\"somewhere in Germany\"}",
                   "{\"location\":\"Berlin, Germany\"}",
                   "{\"location\":\"Canada and USA\"}",
                   "{\"location\":\"Atlantis\"}",
                   "{\"location\":\"constructor\"}",
                   "{\"location\":\"Constructor\"}"}}
    \cup {Item(Str("Europe"), Str("{\"location\":\"Tokyo, Japan\"}"), 5),
          Item(Str("MENA"), Undefined, 2),
          Item(Null, Undefined, 2),
          Item(Null, Str("null"), 2)}

\* the first aggregation of an array of these items
OrderInit ==
  /\ news \in UNION {[1..n -> OrderItems \cap NewsItems] : n \in 0..MaxItems}
  /\ pc = "forEach"
  /\ idx = 1
  /\ stats = <<>>
  /\ statsKeys = <<>>
  /\ global = 0
  /\ result = NoResult
  /\ run = 1
  /\ firstResult = NoResult
  /\ tainted = {}
  /\ placed = <<>>

\* lines 98, 171: the memo is computed again for an array with the same
\* items in any order
RecomputeReordered ==
  /\ pc = "returned"
  /\ run < MaxRuns
  /\ \E p \in Permutations(DOMAIN news) :
       news' = [i \in DOMAIN news |-> news[p[i]]]
  /\ run' = run + 1
  /\ pc' = "forEach"
  /\ idx' = 1
  /\ stats' = <<>>
  /\ statsKeys' = <<>>
  /\ global' = 0
  /\ placed' = <<>>
  /\ UNCHANGED <<result, firstResult, tainted>>
  /\ UNCHANGED notMapVars

OrderNext == ForEachItem \/ Return \/ RecomputeReordered

InitOrder ==
  OrderInit /\ RenderParked /\ HomeParked /\ ApiParked /\ ButtonParked
    /\ DbParked /\ CardParked /\ FilterParked /\ SidebarParked /\ ListingParked

SpecOrder == InitOrder /\ [][OrderNext]_vars

\* the buckets of a memo value, whatever their order
BucketSet(memo) ==
  {memo.regionStats[i] : i \in DOMAIN memo.regionStats}

(***************************************************************************)
(* C28: the aggregation of the same items in another order ends as the     *)
(* first one did, with the same set of buckets (name, count, maxThreat,    *)
(* coordinates) and the same globalCount.                                  *)
(***************************************************************************)
C28_OrderIndependent ==
  run > 1 =>
    /\ pc # "thrown"
    /\ pc = "returned" =>
         /\ BucketSet(result) = BucketSet(firstResult)
         /\ Len(result.regionStats) = Len(firstResult.regionStats)
         /\ result.globalCount = firstResult.globalCount

\* a second aggregation that created the buckets in another order
C28_Witness ==
  /\ run > 1
  /\ pc = "returned"
  /\ result.regionStats # firstResult.regionStats

(***************************************************************************)
(* The status endpoint racing the producer (SpecStatus, Part 4).           *)
(***************************************************************************)
\* marker files that hold a completely written status
CompleteStatusFiles ==
  {File(RunningText), File(CompletedText), File(ErrorText)}

(***************************************************************************)
(* C29: a GET that runs while the producer creates, rewrites or removes    *)
(* the marker file, and that only ever sees no file or a completely        *)
(* written status, answers with the idle default or with the status, never *)
(* with the 500 "Failed to read status" response.                          *)
(***************************************************************************)
C29_NoFailedReadUnderRace ==
  \A i \in DOMAIN api.last :
    ( /\ api.last[i].checked \in CompleteStatusFiles \cup {Absent}
      /\ api.last[i].read \in CompleteStatusFiles \cup {Absent, NotRead} )
    => /\ api.last[i].response.http = 200
       /\ api.last[i].response # failedToRead

====
